---- MODULE Spec2Model ----
(***************************************************************************)
(* Hedge lifecycle and reconciliation engine of the weather-market trading *)
(* strategy: the Leg store (monitor.py), the partial-fill policy and hedge *)
(* discovery (strategy.py) and the trade ledger (trade_history.py).        *)
(*                                                                         *)
(* Time is counted in minutes.  Temperatures are counted in tenths of a    *)
(* degree, so that half-degree midpoints and fractional forecasts are      *)
(* integers.  Prices are cents.                                            *)
(***************************************************************************)
EXTENDS Integers, Sequences, FiniteSets, TLC

VARIABLES
    positions,   \* positions.json: key -> Leg record
    now,         \* the wall clock: index of the current observed instant
    last,        \* what the most recent handler did (history variable)
    markets,        \* the event's markets as fetched for discovery
    forecast_temp,  \* the forecast handed to discovery
    opportunity,    \* what find_hedge_opportunity returned
    history         \* trade_history.json: the trades and the summary block

vars == <<positions, now, last, markets, forecast_temp, opportunity, history>>
legVars == <<positions, now, last>>
nonLegVars == <<markets, forecast_temp, opportunity, history>>

-----------------------------------------------------------------------------
(* Bounds of the model *)

MaxTick == 2         \* the clock is observed at instants 0..MaxTick
MaxCount == 2        \* largest intended / held contract count
MaxReprice == 1      \* reprices of one leg followed by the model
MaxBuckets == 3      \* markets of the event handed to discovery
MaxForecasts == 1    \* forecast snapshots kept on one trade
MaxTrades == 3       \* hedges in a ledger whose summary is computed

(* Program constants *)

MAX_BUCKET_PRICE == 50
MAX_TOTAL_COST == 100
MIN_BUCKET_PRICE == 2
REPRICE_INCREMENT == 1

(* Python's None in an integer-valued field (timestamp, price). *)
NoneInt == -1
(* An absent "pnl" key: no price difference reaches it (prices are 0..99). *)
NoPnl == -1000
(* An absent "series" key. *)
NoSeries == "none"

(* Minutes between two observed instants of the clock. *)
StepMin == 420
(* 23:59 on the settlement date of the modelled event, in minutes. *)
CloseMin == 900

-----------------------------------------------------------------------------
(* Tickers: SERIES-DATE-STRIKE, kept as the parts ticker.split("-") gives. *)

Series == {"KXHIGHDEN"}
Tickers == {<<"KXHIGHDEN", "D1", "B49">>, <<"KXHIGHDEN", "D1", "B50">>}
Sides == {"yes"}

Key(ticker, side) == <<ticker, side>>

(* Order ids are opaque strings; NoId is Python's None in "order_id". *)
NoId == "none"
OrderIds == {"ord-a", "ord-b"}
OrderIdsOrNone == OrderIds \cup {NoId}
(* The maker price each bucket is entered at. *)
EntryPrice(ticker) == IF ticker[3] = "B49" THEN 30 ELSE 50
VenueCounts == (0 - 1)..MaxCount
Snapshots == UNION {[S -> VenueCounts] : S \in SUBSET Tickers}

TerminalStatuses == {"derisk_sold", "derisk_cancelled", "won_sold", "sold"}

-----------------------------------------------------------------------------
(* monitor.py *)

NewLeg(ticker, side, limit_price, intended_count, order_id, t) ==
    [ticker |-> ticker, side |-> side, limit_price |-> limit_price,
     intended_count |-> intended_count, count |-> 0, order_id |-> order_id,
     timestamp |-> t, status |-> "pending",
     filled_timestamp |-> NoneInt, series |-> NoSeries, reprice_count |-> 0,
     sold_price |-> NoneInt, sold_timestamp |-> NoneInt, pnl |-> NoPnl,
     cancelled_timestamp |-> NoneInt]

AddPendingOrder(pos, ticker, side, limit_price, intended_count, order_id, t) ==
    LET key == Key(ticker, side)
    IN  [k \in DOMAIN pos \cup {key} |->
            IF k = key
            THEN NewLeg(ticker, side, limit_price, intended_count, order_id, t)
            ELSE pos[k]]

(* orders.get_temperature_positions: the list on a 200, [] on anything else. *)
EmptyList == [x \in {} |-> 0]

GetTemperaturePositions(resp) ==
    IF resp.status = 200 THEN resp.market_positions ELSE EmptyList

(* ReconcileLeg with the first-seen fill time overwritten on every pass. *)
ReconcileLegAlwaysStamps(rec, pos_map, t) ==
    IF rec.status \notin {"pending", "partial"}
    THEN rec
    ELSE LET intended == rec.intended_count
             filled == IF rec.ticker \in DOMAIN pos_map THEN pos_map[rec.ticker] ELSE 0
         IN  IF filled <= 0
             THEN [rec EXCEPT !.status = "pending", !.count = 0]
             ELSE IF filled < intended
             THEN [rec EXCEPT !.status = "partial", !.count = filled,
                              !.filled_timestamp = t]
             ELSE [rec EXCEPT !.status = "filled", !.count = filled,
                              !.filled_timestamp = t]

(* ReconcileLeg taking any reported holding for a complete fill. *)
ReconcileLegNoPartial(rec, pos_map, t) ==
    IF rec.status \notin {"pending", "partial"}
    THEN rec
    ELSE LET filled == IF rec.ticker \in DOMAIN pos_map THEN pos_map[rec.ticker] ELSE 0
         IN  IF filled <= 0
             THEN [rec EXCEPT !.status = "pending", !.count = 0]
             ELSE [rec EXCEPT !.status = "filled", !.count = filled,
                              !.filled_timestamp = IF rec.status # "filled" THEN t ELSE @]

(* ReconcileLeg without the skip of statuses other than pending/partial. *)
ReconcileLegAnyStatus(rec, pos_map, t) ==
    LET intended == rec.intended_count
        filled == IF rec.ticker \in DOMAIN pos_map THEN pos_map[rec.ticker] ELSE 0
    IN  IF filled <= 0
        THEN [rec EXCEPT !.status = "pending", !.count = 0]
        ELSE IF filled < intended
        THEN [rec EXCEPT !.status = "partial", !.count = filled,
                         !.filled_timestamp = IF @ = NoneInt THEN t ELSE @]
        ELSE [rec EXCEPT !.status = "filled", !.count = filled,
                         !.filled_timestamp = IF rec.status # "filled" THEN t ELSE @]

ReconcileLeg(rec, pos_map, t) ==
    IF rec.status \notin {"pending", "partial"}
    THEN rec
    ELSE LET intended == rec.intended_count
             filled == IF rec.ticker \in DOMAIN pos_map THEN pos_map[rec.ticker] ELSE 0
         IN  IF filled <= 0
             THEN [rec EXCEPT !.status = "pending", !.count = 0]
             ELSE IF filled < intended
             THEN [rec EXCEPT !.status = "partial", !.count = filled,
                              !.filled_timestamp = IF @ = NoneInt THEN t ELSE @]
             ELSE [rec EXCEPT !.status = "filled", !.count = filled,
                              !.filled_timestamp = IF rec.status # "filled" THEN t ELSE @]

(* fetch is the outcome of fetch_positions_fn: it raised, or the venue   *)
(* answered with an HTTP status and a body.                               *)
ReconcilePendingOrders(pos, fetch, t) ==
    IF DOMAIN pos = {} THEN pos
    ELSE IF fetch.raised THEN pos
    ELSE LET pos_map == GetTemperaturePositions(fetch)
         IN  [k \in DOMAIN pos |-> ReconcileLeg(pos[k], pos_map, t)]

(* What the caller of reconcile_pending_orders gets back: the function   *)
(* catches the exception of the query, so it never raises, and returns   *)
(* the positions it ends with.                                           *)
ReconcileReturn(pos, fetch, t) ==
    [raised |-> FALSE, positions |-> ReconcilePendingOrders(pos, fetch, t)]

(* The outcomes of one portfolio query: it raised, the venue refused it, *)
(* or it answered with a list of holdings.                               *)
FetchOutcomesOf(snaps) ==
    { [raised |-> TRUE, status |-> 0, market_positions |-> EmptyList],
      [raised |-> FALSE, status |-> 500, market_positions |-> EmptyList] }
    \cup { [raised |-> FALSE, status |-> 200, market_positions |-> h] : h \in snaps }

FetchOutcomes == FetchOutcomesOf(Snapshots)

FetchKind(fetch) ==
    IF fetch.raised THEN "raised" ELSE IF fetch.status = 200 THEN "ok" ELSE "http_error"

-----------------------------------------------------------------------------
(* strategy.py: partial-fill policy *)

Min(a, b) == IF a <= b THEN a ELSE b
Max(a, b) == IF a >= b THEN a ELSE b

(* get_hours_until_close, in minutes: the ticker's date part is parsed and *)
(* the market closes at 23:59 of that day; None when it does not parse.    *)
ParsableDates == {"D1"}
HoursKnown(ticker) == ticker[2] \in ParsableDates
MinutesUntilClose(ticker, t) == CloseMin - t

(* get_wait_minutes_for_hours with the 6-12 h wait applied down to 2 h. *)
GetWaitMinutesNoShortBand(known, m) ==
    IF ~known THEN 60
    ELSE IF m > 12 * 60 THEN 120
    ELSE IF m > 2 * 60 THEN 60
    ELSE 0

(* get_wait_minutes_for_hours; 12, 6 and 2 hours are 720, 360, 120 minutes *)
GetWaitMinutesForHours(known, m) ==
    IF ~known THEN 60
    ELSE IF m > 12 * 60 THEN 120
    ELSE IF m > 6 * 60 THEN 60
    ELSE IF m > 2 * 60 THEN 20
    ELSE 0

GetTimeSinceOrder(rec, t) == t - rec.timestamp

(* find_partial_fill_hedges: series with exactly two tracked legs, one *)
(* "filled" and the other "pending".                                    *)
LegsOfSeries(pos, s) == {k \in DOMAIN pos : pos[k].series = s}

(* The scan taking a de-risked hedge for a partial one. *)
FindPartialFillHedgesIncludingDerisked(pos) ==
    { [series |-> s, filled_key |-> f, pending_key |-> p,
       filled_pos |-> pos[f], pending_pos |-> pos[p]] :
        <<s, f, p>> \in
          { x \in Series \X (DOMAIN pos) \X (DOMAIN pos) :
                /\ x[2] # x[3]
                /\ LegsOfSeries(pos, x[1]) = {x[2], x[3]}
                /\ pos[x[2]].status \in {"filled", "derisk_sold"}
                /\ pos[x[3]].status \in {"pending", "derisk_cancelled"} } }

(* The scan reading the store as it was when the pass began. *)
FindPartialFillHedgesInStoredLegs(pos) ==
    { [series |-> s, filled_key |-> f, pending_key |-> p,
       filled_pos |-> positions[f], pending_pos |-> positions[p]] :
        <<s, f, p>> \in
          { x \in Series \X (DOMAIN positions) \X (DOMAIN positions) :
                /\ x[2] # x[3]
                /\ LegsOfSeries(positions, x[1]) = {x[2], x[3]}
                /\ positions[x[2]].status = "filled"
                /\ positions[x[3]].status = "pending" } }

FindPartialFillHedges(pos) ==
    { [series |-> s, filled_key |-> f, pending_key |-> p,
       filled_pos |-> pos[f], pending_pos |-> pos[p]] :
        <<s, f, p>> \in
          { x \in Series \X (DOMAIN pos) \X (DOMAIN pos) :
                /\ x[2] # x[3]
                /\ LegsOfSeries(pos, x[1]) = {x[2], x[3]}
                /\ pos[x[2]].status = "filled"
                /\ pos[x[3]].status = "pending" } }

(* The outcome of get_market_price: None, or the quoted yes bid and ask. *)
NoPrices == [ok |-> FALSE, yes_bid |-> 0, yes_ask |-> 0]
Quote(bid, ask) == [ok |-> TRUE, yes_bid |-> bid, yes_ask |-> ask]

NewMakerPrice(prices) ==
    LET raw == IF prices.yes_bid > 0
               THEN Min(prices.yes_bid + 1, prices.yes_ask)
               ELSE prices.yes_ask
    IN  Max(1, Min(99, raw))

(* evaluate_partial_fill where any price rise beyond one tick de-risks. *)
EvaluatePartialFillNoBudgetCheck(hedge, prices, t) ==
    LET pending_pos == hedge.pending_pos
        known == HoursKnown(pending_pos.ticker)
        mins == MinutesUntilClose(pending_pos.ticker, t)
        original_limit == pending_pos.limit_price
        new_maker_price == NewMakerPrice(prices)
        price_diff == new_maker_price - original_limit
        result(a) == [action |-> a, new_maker_price |-> new_maker_price]
    IN  IF ~prices.ok THEN [action |-> "wait", new_maker_price |-> 0]
        ELSE IF known /\ mins < 2 * 60 THEN result("derisk")
        ELSE IF known /\ mins < 6 * 60
        THEN IF new_maker_price <= original_limit + REPRICE_INCREMENT
             THEN result("reprice") ELSE result("derisk")
        ELSE IF price_diff <= 0 THEN result("wait")
        ELSE IF price_diff = 1 THEN result("reprice")
        ELSE result("derisk")

(* evaluate_partial_fill: the action and the candidate maker price. *)
EvaluatePartialFill(hedge, prices, t) ==
    LET pending_pos == hedge.pending_pos
        filled_pos == hedge.filled_pos
        known == HoursKnown(pending_pos.ticker)
        mins == MinutesUntilClose(pending_pos.ticker, t)
        original_limit == pending_pos.limit_price
        new_maker_price == NewMakerPrice(prices)
        price_diff == new_maker_price - original_limit
        new_total == filled_pos.limit_price + new_maker_price
        result(a) == [action |-> a, new_maker_price |-> new_maker_price]
    IN  IF ~prices.ok THEN [action |-> "wait", new_maker_price |-> 0]
        ELSE IF known /\ mins < 2 * 60 THEN result("derisk")
        ELSE IF known /\ mins < 6 * 60
        THEN IF new_maker_price <= original_limit + REPRICE_INCREMENT
             THEN result("reprice") ELSE result("derisk")
        ELSE IF price_diff <= 0 THEN result("wait")
        ELSE IF price_diff = 1 THEN result("reprice")
        ELSE IF new_total <= MAX_TOTAL_COST THEN result("reprice")
        ELSE result("derisk")

(* The outcome of orders.buy / orders.sell: None, or a response carrying *)
(* an order id (which the caller may fail to find in it).                *)
OrderFailed == [ok |-> FALSE, order_id |-> NoId]
OrderPlaced(oid) == [ok |-> TRUE, order_id |-> oid]

(* What a handler did at the venue, for the history variable. *)
NoCalls == [cancel_tried |-> FALSE, cancel_ok |-> FALSE,
            buy_sent |-> FALSE, sell_sent |-> FALSE, sell_price |-> 0]

(* execute_reprice that leaves the order timestamp as it was. *)
ExecuteRepriceKeepsTimestamp(pos, hedge, new_price, cancel_ok, buy, t) ==
    LET order_id == hedge.pending_pos.order_id
        pending_key == hedge.pending_key
        tried == order_id # NoId
    IN  IF tried /\ ~cancel_ok
        THEN [pos |-> pos, success |-> FALSE,
              calls |-> [NoCalls EXCEPT !.cancel_tried = TRUE]]
        ELSE LET calls == [NoCalls EXCEPT !.cancel_tried = tried,
                                          !.cancel_ok = tried, !.buy_sent = TRUE]
             IN  IF buy.ok
                 THEN [pos |-> [pos EXCEPT ![pending_key] =
                                   [@ EXCEPT !.limit_price = new_price,
                                             !.order_id = buy.order_id,
                                             !.reprice_count = @ + 1]],
                       success |-> TRUE, calls |-> calls]
                 ELSE [pos |-> pos, success |-> FALSE, calls |-> calls]

(* execute_reprice *)
ExecuteReprice(pos, hedge, new_price, cancel_ok, buy, t) ==
    LET order_id == hedge.pending_pos.order_id
        pending_key == hedge.pending_key
        tried == order_id # NoId
    IN  IF tried /\ ~cancel_ok
        THEN [pos |-> pos, success |-> FALSE,
              calls |-> [NoCalls EXCEPT !.cancel_tried = TRUE]]
        ELSE LET calls == [NoCalls EXCEPT !.cancel_tried = tried,
                                          !.cancel_ok = tried, !.buy_sent = TRUE]
             IN  IF buy.ok
                 THEN [pos |-> IF pending_key \in DOMAIN pos
                               THEN [pos EXCEPT ![pending_key] =
                                        [@ EXCEPT !.limit_price = new_price,
                                                  !.order_id = buy.order_id,
                                                  !.timestamp = t,
                                                  !.reprice_count = @ + 1]]
                               ELSE pos,
                       success |-> TRUE, calls |-> calls]
                 ELSE [pos |-> pos, success |-> FALSE, calls |-> calls]

(* execute_derisk that marks the sold leg but forgets the pending one. *)
ExecuteDeriskKeepsPending(pos, hedge, prices, cancel_ok, sell, t) ==
    LET filled_key == hedge.filled_key
        current_bid == prices.yes_bid
        pnl == current_bid - hedge.filled_pos.limit_price
        tried == hedge.pending_pos.order_id # NoId
        calls == [NoCalls EXCEPT !.cancel_tried = tried,
                                 !.cancel_ok = tried /\ cancel_ok,
                                 !.sell_sent = TRUE, !.sell_price = current_bid]
    IN  IF ~prices.ok \/ current_bid <= 0
        THEN [pos |-> pos, success |-> FALSE, calls |-> NoCalls]
        ELSE IF sell.ok
        THEN [pos |-> [pos EXCEPT ![filled_key] =
                          [@ EXCEPT !.status = "derisk_sold", !.sold_price = current_bid,
                                    !.sold_timestamp = t, !.pnl = pnl]],
              success |-> TRUE, calls |-> calls]
        ELSE [pos |-> pos, success |-> FALSE, calls |-> calls]

(* execute_derisk giving up when the cancellation is not accepted. *)
ExecuteDeriskAbortsOnCancelFailure(pos, hedge, prices, cancel_ok, sell, t) ==
    LET filled_key == hedge.filled_key
        pending_key == hedge.pending_key
        current_bid == prices.yes_bid
        pnl == current_bid - hedge.filled_pos.limit_price
        tried == hedge.pending_pos.order_id # NoId
        calls == [NoCalls EXCEPT !.cancel_tried = tried,
                                 !.cancel_ok = tried /\ cancel_ok,
                                 !.sell_sent = TRUE, !.sell_price = current_bid]
    IN  IF ~prices.ok \/ current_bid <= 0
        THEN [pos |-> pos, success |-> FALSE, calls |-> NoCalls]
        ELSE IF tried /\ ~cancel_ok
        THEN [pos |-> pos, success |-> FALSE,
              calls |-> [NoCalls EXCEPT !.cancel_tried = TRUE]]
        ELSE IF sell.ok
        THEN [pos |-> [k \in DOMAIN pos |->
                          IF k = filled_key
                          THEN [pos[k] EXCEPT !.status = "derisk_sold",
                                              !.sold_price = current_bid,
                                              !.sold_timestamp = t, !.pnl = pnl]
                          ELSE IF k = pending_key
                          THEN [pos[k] EXCEPT !.status = "derisk_cancelled",
                                              !.cancelled_timestamp = t]
                          ELSE pos[k]],
              success |-> TRUE, calls |-> calls]
        ELSE [pos |-> pos, success |-> FALSE, calls |-> calls]

(* execute_derisk *)
ExecuteDerisk(pos, hedge, prices, cancel_ok, sell, t) ==
    LET filled_key == hedge.filled_key
        pending_key == hedge.pending_key
        current_bid == prices.yes_bid
        entry_price == hedge.filled_pos.limit_price
        pnl == current_bid - entry_price
        tried == hedge.pending_pos.order_id # NoId
        calls == [NoCalls EXCEPT !.cancel_tried = tried,
                                 !.cancel_ok = tried /\ cancel_ok,
                                 !.sell_sent = TRUE, !.sell_price = current_bid]
        sold(rec) == [rec EXCEPT !.status = "derisk_sold", !.sold_price = current_bid,
                                 !.sold_timestamp = t, !.pnl = pnl]
        cancelled(rec) == [rec EXCEPT !.status = "derisk_cancelled",
                                      !.cancelled_timestamp = t]
    IN  IF ~prices.ok \/ current_bid <= 0
        THEN [pos |-> pos, success |-> FALSE, calls |-> NoCalls]
        ELSE IF sell.ok
        THEN [pos |-> [k \in DOMAIN pos |->
                          IF k = filled_key THEN sold(pos[k])
                          ELSE IF k = pending_key THEN cancelled(pos[k])
                          ELSE pos[k]],
              success |-> TRUE, calls |-> calls]
        ELSE [pos |-> pos, success |-> FALSE, calls |-> calls]

-----------------------------------------------------------------------------
Clock == now * StepMin

Idle == [op |-> "init"]

ZeroStats ==
    [total_trades |-> 0, wins |-> 0, losses |-> 0, derisked |-> 0, open |-> 0,
     won_profit |-> 0, lost_loss |-> 0, derisk_pnl |-> 0, net_profit |-> 0,
     total_invested |-> 0]

(* load_history with no file on disk *)
EmptyHistory == [trades |-> <<>>, summary |-> [by_date |-> EmptyList, totals |-> ZeroStats]]

NotRun == [run |-> FALSE, found |-> FALSE]

InitLegs ==
    /\ positions = EmptyList
    /\ now = 0
    /\ last = Idle

InitDiscoveryIdle ==
    /\ markets = <<>>
    /\ forecast_temp = 0
    /\ opportunity = NotRun

Init ==
    /\ InitLegs
    /\ InitDiscoveryIdle
    /\ history = EmptyHistory

Tick ==
    /\ now < MaxTick
    /\ now' = now + 1
    /\ UNCHANGED <<positions, last, nonLegVars>>

AddPendingOrderAct ==
    \E ticker \in Tickers, side \in Sides, n \in 1..MaxCount, oid \in {"ord-a"} :
        /\ positions' = AddPendingOrder(positions, ticker, side, EntryPrice(ticker),
                                        n, oid, Clock)
        /\ last' = [op |-> "add_pending_order", key |-> Key(ticker, side),
                    error |-> "none"]
        /\ UNCHANGED <<now, nonLegVars>>

ReconcileAct ==
    \E fetch \in FetchOutcomes :
        /\ positions' = ReconcilePendingOrders(positions, fetch, Clock)
        /\ last' = [op |-> "reconcile", fetch |-> FetchKind(fetch)]
        /\ UNCHANGED <<now, nonLegVars>>

(* execute_hedge_trade: buy leg 1, track it, reconcile, tag it with the *)
(* series; then the same for leg 2.  A failed buy returns at once.       *)
TagSeries(pos, key, series) ==
    IF key \in DOMAIN pos THEN [pos EXCEPT ![key] = [@ EXCEPT !.series = series]]
    ELSE pos

PlaceLeg(pos, series, ticker, buy, fetch, t) ==
    TagSeries(
        ReconcilePendingOrders(
            AddPendingOrder(pos, ticker, "yes", EntryPrice(ticker), 1, buy.order_id, t),
            fetch, t),
        Key(ticker, "yes"), series)

ExecuteHedgeTradeOp(pos, series, ticker1, ticker2, buy1, fetch1, buy2, fetch2, t) ==
    IF ~buy1.ok THEN pos
    ELSE LET pos1 == PlaceLeg(pos, series, ticker1, buy1, fetch1, t)
         IN  IF ~buy2.ok THEN pos1
             ELSE PlaceLeg(pos1, series, ticker2, buy2, fetch2, t)

(* The holdings lists and order outcomes the policy handlers are run against. *)
PolicySnapshots == [Tickers -> 0..1] \cup {EmptyList}
PolicyFetches == FetchOutcomesOf(PolicySnapshots)
BuyOutcomes == {OrderFailed, OrderPlaced("ord-a"), OrderPlaced(NoId)}
RepriceOutcomes == {OrderFailed, OrderPlaced("ord-b")}
SellOutcomes == {OrderFailed, OrderPlaced("ord-b")}
PendingQuotes == {NoPrices, Quote(0, 0), Quote(30, 32), Quote(50, 52), Quote(57, 60)}
FilledQuotes == {NoPrices, Quote(0, 5), Quote(20, 25), Quote(60, 62)}

(* run_once enters a series only when the store holds no leg of it; *)
(* run_strategy enters it again only while an earlier entry failed    *)
(* (its second leg was not placed).                                   *)
LowerTicker == <<"KXHIGHDEN", "D1", "B49">>
UpperTicker == <<"KXHIGHDEN", "D1", "B50">>

ExecuteHedgeTrade ==
    /\ Cardinality(LegsOfSeries(positions, LowerTicker[1])) < 2
    /\ \E buy1 \in BuyOutcomes :
        IF ~buy1.ok
        THEN /\ positions' = positions
             /\ last' = [op |-> "execute_hedge_trade", placed |-> 0]
             /\ UNCHANGED <<now, nonLegVars>>
        ELSE \E fetch1 \in PolicyFetches, buy2 \in BuyOutcomes, fetch2 \in PolicyFetches :
                /\ positions' = ExecuteHedgeTradeOp(positions, LowerTicker[1],
                                                    LowerTicker, UpperTicker,
                                                    buy1, fetch1, buy2, fetch2, Clock)
                /\ last' = [op |-> "execute_hedge_trade",
                            placed |-> IF buy2.ok THEN 2 ELSE 1]
                /\ UNCHANGED <<now, nonLegVars>>

(* monitor_partial_fills: reconcile, scan, and for the partial hedge found  *)
(* the wait gate, the evaluation and the action decided.  One series is     *)
(* modelled, so the scan finds at most one hedge.                           *)
Statuses(pos) == [k \in DOMAIN pos |-> pos[k].status]

NoKey == <<>>

(* The history of one pass: the decision taken for the hedge found, the  *)
(* Leg statuses the decision was taken on, whether the pending leg had   *)
(* fewer than two hours to close, and the venue calls made.              *)
MonitorLog(fetch, hedges, pos1, decision, success, calls) ==
    LET found == hedges # {}
        hedge == CHOOSE h \in hedges : TRUE
    IN  [op |-> "monitor", fetch |-> FetchKind(fetch), found |-> found,
         filled_key |-> IF found THEN hedge.filled_key ELSE NoKey,
         pending_key |-> IF found THEN hedge.pending_key ELSE NoKey,
         under_2h |-> found /\ HoursKnown(hedge.pending_pos.ticker)
                        /\ MinutesUntilClose(hedge.pending_pos.ticker, Clock) < 2 * 60,
         pre |-> Statuses(pos1),
         decision |-> decision, success |-> success, calls |-> calls]

MonitorPartialFills ==
    \E fetch \in PolicyFetches :
        LET pos1 == ReconcilePendingOrders(positions, fetch, Clock)
            hedges == FindPartialFillHedges(pos1)
            Log(decision, success, calls) ==
                MonitorLog(fetch, hedges, pos1, decision, success, calls)
        IN  /\ UNCHANGED <<now, nonLegVars>>
            /\ IF hedges = {}
               THEN /\ positions' = pos1
                    /\ last' = Log("none", TRUE, NoCalls)
               ELSE LET hedge == CHOOSE h \in hedges : TRUE
                        pending_pos == hedge.pending_pos
                        wait_minutes ==
                            GetWaitMinutesForHours(
                                HoursKnown(pending_pos.ticker),
                                MinutesUntilClose(pending_pos.ticker, Clock))
                    IN  IF GetTimeSinceOrder(pending_pos, Clock) < wait_minutes
                        THEN /\ positions' = pos1
                             /\ last' = Log("gate_wait", TRUE, NoCalls)
                        ELSE \E prices \in PendingQuotes :
                            LET ev == EvaluatePartialFill(hedge, prices, Clock)
                            IN  CASE ev.action = "reprice" ->
                                     /\ pending_pos.reprice_count < MaxReprice
                                     /\ \E cancel_ok \in BOOLEAN, buy \in RepriceOutcomes :
                                         LET r == ExecuteReprice(pos1, hedge,
                                                     ev.new_maker_price, cancel_ok, buy, Clock)
                                         IN  /\ positions' = r.pos
                                             /\ last' = Log("reprice", r.success, r.calls)
                                  [] ev.action = "derisk" ->
                                     \E bid \in FilledQuotes, cancel_ok \in BOOLEAN,
                                        sell \in SellOutcomes :
                                         LET r == ExecuteDerisk(pos1, hedge, bid,
                                                                cancel_ok, sell, Clock)
                                         IN  /\ positions' = r.pos
                                             /\ last' = Log("derisk", r.success, r.calls)
                                  [] OTHER ->
                                     /\ positions' = pos1
                                     /\ last' = Log(IF prices.ok THEN "wait"
                                                    ELSE "wait_no_prices", TRUE, NoCalls)

(* run_monitor_loop: after each pass the loop scans the store again and   *)
(* exits when it finds no partial hedge, or none whose pending leg is not *)
(* de-risked; otherwise it sleeps and runs the next pass.                 *)
MonitorLoopExits(pos) ==
    LET partial_hedges == FindPartialFillHedges(pos)
        active_partials ==
            {h \in partial_hedges :
                pos[h.pending_key].status \notin {"derisk_cancelled", "derisk_sold"}}
    IN  partial_hedges = {} \/ active_partials = {}

Next ==
    \/ Tick
    \/ ExecuteHedgeTrade
    \/ MonitorPartialFills

(* The strategy: entry of a hedge and the policy passes over it. *)
Spec == Init /\ [][Next]_vars

NextStore ==
    \/ Tick
    \/ AddPendingOrderAct
    \/ ReconcileAct

(* The Leg store under direct use of its two operations. *)
SpecStore == Init /\ [][NextStore]_vars

-----------------------------------------------------------------------------
(* strategy.py: hedge discovery *)

(* Python's None in floor_strike / cap_strike. *)
NoStrike == -100000
(* The -999 / 999 degree stand-ins of the coverage score, in tenths. *)
CoverageLowNone == -9990
CoverageHighNone == 9990
DistanceNone == 9990
(* The literal price floor of the bucket filter. *)
LowPriceFloor == 15

BucketNames == <<"B48", "B49", "B50", "B51", "B52">>

(* The strikes of the i-th of n buckets of an event: "49 or below",       *)
(* one-degree buckets, "50 or above" (tenths of a degree).                 *)
FloorStrike(i, n) == IF i = 1 THEN NoStrike ELSE 480 + 10 * (i - 1)
CapStrike(i, n) == IF i = n THEN NoStrike ELSE 480 + 10 * i

Market(i, n, quote) ==
    [ticker |-> <<"KXHIGHDEN", "D1", BucketNames[i]>>,
     floor_strike |-> FloorStrike(i, n), cap_strike |-> CapStrike(i, n),
     yes_bid |-> quote[1], yes_ask |-> quote[2]]

(* maker_price: just above the bid, never across the ask, within 1..99. *)
MakerPrice(market) ==
    LET raw == IF market.yes_bid > 0
               THEN Min(market.yes_bid + 1, market.yes_ask)
               ELSE market.yes_ask
    IN  Max(1, Min(99, raw))

Midpoint(market) ==
    IF market.floor_strike # NoStrike /\ market.cap_strike # NoStrike
    THEN (market.floor_strike + market.cap_strike) \div 2
    ELSE IF market.floor_strike = NoStrike
    THEN market.cap_strike - 5
    ELSE market.floor_strike + 5

(* The filter of the first loop without its price floor. *)
IsBucketWithoutPriceFloor(market) ==
    /\ market.yes_ask > 0
    /\ ~(market.floor_strike = NoStrike /\ market.cap_strike = NoStrike)

(* The markets that survive the filter of the first loop. *)
IsBucket(market) ==
    /\ market.yes_ask > 0
    /\ MakerPrice(market) >= LowPriceFloor
    /\ ~(market.floor_strike = NoStrike /\ market.cap_strike = NoStrike)

Bucket(market) ==
    [ticker |-> market.ticker, floor |-> market.floor_strike,
     cap |-> market.cap_strike, yes_ask |-> market.yes_ask,
     yes_bid |-> market.yes_bid, maker_price |-> MakerPrice(market),
     midpoint |-> Midpoint(market)]

BuildBuckets(mkts) ==
    LET kept == SelectSeq(mkts, IsBucket)
    IN  [i \in 1..Len(kept) |-> Bucket(kept[i])]

(* list.sort(key=midpoint): stable. *)
InsertByMidpoint(sorted, b) ==
    LET n == Cardinality({i \in 1..Len(sorted) : sorted[i].midpoint <= b.midpoint})
    IN  SubSeq(sorted, 1, n) \o <<b>> \o SubSeq(sorted, n + 1, Len(sorted))

RECURSIVE SortByMidpoint(_)
SortByMidpoint(seq) ==
    IF seq = <<>> THEN <<>>
    ELSE InsertByMidpoint(SortByMidpoint(SubSeq(seq, 1, Len(seq) - 1)), seq[Len(seq)])

ContainsForecast(bucket, forecast) ==
    IF bucket.floor # NoStrike /\ bucket.cap # NoStrike
    THEN bucket.floor <= forecast /\ forecast < bucket.cap
    ELSE IF bucket.floor = NoStrike
    THEN forecast < bucket.cap
    ELSE forecast >= bucket.floor

Abs(x) == IF x < 0 THEN 0 - x ELSE x

(* forecast_bucket_idx, 1-based; 0 stands for None. *)
ForecastBucketIdx(buckets, forecast) ==
    LET idxs == 1..Len(buckets)
        containing == {i \in idxs : ContainsForecast(buckets[i], forecast)}
        distance(i) == Abs(buckets[i].midpoint - forecast)
    IN  IF containing # {}
        THEN CHOOSE i \in containing : \A j \in containing : i <= j
        ELSE IF idxs = {} THEN 0
        ELSE CHOOSE i \in idxs :
                 \A j \in idxs : distance(i) < distance(j)
                                 \/ (distance(i) = distance(j) /\ i <= j)

(* Candidate pairs built around the lowest bucket, wherever the forecast is. *)
CandidatePairsAroundFirst(idx, n) ==
    IF idx > 0 /\ n >= 2 THEN << <<1, 2>> >> ELSE <<>>

CandidatePairs(idx, n) ==
    (IF idx > 1 THEN << <<idx - 1, idx>> >> ELSE <<>>)
    \o (IF idx + 1 <= n THEN << <<idx, idx + 1>> >> ELSE <<>>)

(* The price checks with only the first leg's price limit. *)
PairAffordableFirstLegOnly(b1, b2) ==
    /\ ~(b1.maker_price > MAX_BUCKET_PRICE)
    /\ ~(b1.maker_price + b2.maker_price > MAX_TOTAL_COST)

(* The price checks, passed only while the Leg store holds no leg. *)
PairAffordableWhileStoreEmpty(b1, b2) ==
    /\ positions = EmptyList
    /\ ~(b1.maker_price > MAX_BUCKET_PRICE \/ b2.maker_price > MAX_BUCKET_PRICE)
    /\ ~(b1.maker_price + b2.maker_price > MAX_TOTAL_COST)

(* The two price checks on a candidate pair. *)
PairAffordable(b1, b2) ==
    /\ ~(b1.maker_price > MAX_BUCKET_PRICE \/ b2.maker_price > MAX_BUCKET_PRICE)
    /\ ~(b1.maker_price + b2.maker_price > MAX_TOTAL_COST)

(* A score that looks at the distance to the lower floor only. *)
CoverageScoreLowOnly(b1, b2, forecast) ==
    IF b1.floor # NoStrike THEN forecast - b1.floor ELSE DistanceNone

CoverageScore(b1, b2, forecast) ==
    LET coverage_low == IF b1.floor # NoStrike THEN b1.floor ELSE CoverageLowNone
        coverage_high == IF b2.cap # NoStrike THEN b2.cap ELSE CoverageHighNone
        distance_to_low == IF coverage_low # CoverageLowNone
                           THEN forecast - coverage_low ELSE DistanceNone
        distance_to_high == IF coverage_high # CoverageHighNone
                            THEN coverage_high - forecast ELSE DistanceNone
    IN  Min(distance_to_low, distance_to_high)

NoOpportunity == [run |-> TRUE, found |-> FALSE]

(* find_hedge_opportunity *)
FindHedgeOpportunity(mkts, forecast) ==
    LET buckets == SortByMidpoint(BuildBuckets(mkts))
        idx == ForecastBucketIdx(buckets, forecast)
        candidate_pairs == CandidatePairs(idx, Len(buckets))
        affordable(c) == PairAffordable(buckets[c[1]], buckets[c[2]])
        valid_pairs == SelectSeq(candidate_pairs, affordable)
        score(c) == CoverageScore(buckets[c[1]], buckets[c[2]], forecast)
        cost(c) == buckets[c[1]].maker_price + buckets[c[2]].maker_price
        before(c, d) == score(c) > score(d) \/ (score(c) = score(d) /\ cost(c) <= cost(d))
        best == IF Len(valid_pairs) = 2 /\ ~before(valid_pairs[1], valid_pairs[2])
                THEN valid_pairs[2] ELSE valid_pairs[1]
    IN  IF idx = 0 \/ valid_pairs = <<>>
        THEN NoOpportunity
        ELSE [run |-> TRUE, found |-> TRUE, leg1 |-> buckets[best[1]],
              leg2 |-> buckets[best[2]], total_cost |-> cost(best)]

(* Quotes <<yes_bid, yes_ask>> a bucket can show: no ask, under the price  *)
(* floor, mid-range, at and just over the per-leg limit, beyond 99.        *)
DiscoveryQuotes ==
    {<<0, 0>>, <<13, 14>>, <<0, 20>>, <<37, 38>>, <<49, 52>>, <<50, 52>>, <<0, 100>>}

Forecasts == {485, 490, 495, 497, 512}

Reverse(seq) == [i \in 1..Len(seq) |-> seq[Len(seq) + 1 - i]]

(* The listings of an event of MaxBuckets buckets, in either order. *)
MarketLists ==
    LET listed == {[i \in 1..MaxBuckets |-> Market(i, MaxBuckets, q[i])] :
                      q \in [1..MaxBuckets -> DiscoveryQuotes]}
    IN  listed \cup {Reverse(l) : l \in listed}


-----------------------------------------------------------------------------
(* trade_history.py: the trade ledger *)

(* An absent or None title / winning bucket. *)
NoTitle == "none"
(* forecast_data = None, and the one forecast the feed reports. *)
NoForecast == [present |-> FALSE]
ForecastData == [present |-> TRUE, forecast_temp |-> 497]
ForecastInputs == {NoForecast, ForecastData}
(* trade["exit"] = None *)
NoExit == [type |-> "none"]

(* extract_market_date: the date part of the ticker. *)
ExtractMarketDate(ticker) == ticker[2]

(* generate_trade_id: f"{series}_{date_str}" *)
GenerateTradeId(series, ticker) == <<series, ExtractMarketDate(ticker)>>

(* The title execute_hedge_trade stores on a leg together with its series. *)
LegTitle(rec) == IF rec.series # NoSeries THEN rec.ticker[3] ELSE NoTitle

(* Index of the first trade with this id; 0 when there is none. *)
FindTrade(hist, trade_id) ==
    LET hits == {i \in 1..Len(hist.trades) : hist.trades[i].id = trade_id}
    IN  IF hits = {} THEN 0 ELSE CHOOSE i \in hits : \A j \in hits : i <= j

ForecastEntry(forecast_data, t) ==
    [timestamp |-> t, forecast_temp |-> forecast_data.forecast_temp, source |-> "nws"]

(* The "leg1" / "leg2" block of a new trade. *)
TradeLeg(key, leg) ==
    [key |-> key, ticker |-> leg.ticker, title |-> LegTitle(leg),
     order_timestamp |-> leg.timestamp, order_price |-> leg.limit_price,
     fill_timestamp |-> leg.filled_timestamp, fill_price |-> leg.limit_price,
     status |-> leg.status, count |-> leg.count, reprice_count |-> leg.reprice_count,
     sold_price |-> NoneInt, sold_timestamp |-> NoneInt, pnl |-> NoPnl,
     cancelled_timestamp |-> NoneInt]

(* The per-leg block of update_trade. *)
UpdateTradeLeg(tleg, leg) ==
    LET base == [tleg EXCEPT !.status = leg.status,
                             !.fill_timestamp = IF leg.filled_timestamp # NoneInt
                                                THEN leg.filled_timestamp ELSE @,
                             !.reprice_count = leg.reprice_count]
    IN  IF leg.sold_price > 0
        THEN [base EXCEPT !.sold_price = leg.sold_price,
                          !.sold_timestamp = leg.sold_timestamp]
        ELSE base

(* update_trade with positions_data and both leg keys given *)
UpdateTrade(hist, trade_id, pos, leg1_key, leg2_key, forecast_data, t) ==
    LET i == FindTrade(hist, trade_id)
        trade == hist.trades[i]
        legs == IF pos = EmptyList THEN trade
                ELSE [trade EXCEPT !.leg1 = UpdateTradeLeg(@, pos[leg1_key]),
                                   !.leg2 = UpdateTradeLeg(@, pos[leg2_key])]
        seen == IF forecast_data.present
                THEN [legs EXCEPT !.forecasts = Append(@, ForecastEntry(forecast_data, t))]
                ELSE legs
    IN  IF i = 0 THEN hist
        ELSE [hist EXCEPT !.trades[i] = [seen EXCEPT !.updated_at = t]]

(* record_hedge_entry without the look-up of an existing trade. *)
RecordHedgeEntryAlwaysAppends(hist, pos, leg1_key, leg2_key, forecast_data, t) ==
    LET leg1 == pos[leg1_key]
        leg2 == pos[leg2_key]
        trade_id == GenerateTradeId(leg1.series, leg1.ticker)
        total_cost == leg1.limit_price + leg2.limit_price
        trade == [id |-> trade_id, series |-> leg1.series,
                  market_date |-> ExtractMarketDate(leg1.ticker),
                  leg1 |-> TradeLeg(leg1_key, leg1), leg2 |-> TradeLeg(leg2_key, leg2),
                  total_cost |-> total_cost,
                  forecasts |-> IF forecast_data.present
                                THEN <<ForecastEntry(forecast_data, t)>> ELSE <<>>,
                  outcome |-> "open", actual_temp |-> NoneInt,
                  winning_bucket |-> NoTitle, pnl |-> NoPnl, exit |-> NoExit,
                  created_at |-> t, updated_at |-> t, settled_at |-> NoneInt]
    IN  [hist EXCEPT !.trades = Append(@, trade)]

(* record_hedge_entry *)
RecordHedgeEntry(hist, pos, leg1_key, leg2_key, forecast_data, t) ==
    LET leg1 == pos[leg1_key]
        leg2 == pos[leg2_key]
        trade_id == GenerateTradeId(leg1.series, leg1.ticker)
        total_cost == leg1.limit_price + leg2.limit_price
        trade == [id |-> trade_id, series |-> leg1.series,
                  market_date |-> ExtractMarketDate(leg1.ticker),
                  leg1 |-> TradeLeg(leg1_key, leg1), leg2 |-> TradeLeg(leg2_key, leg2),
                  total_cost |-> total_cost,
                  forecasts |-> IF forecast_data.present
                                THEN <<ForecastEntry(forecast_data, t)>> ELSE <<>>,
                  outcome |-> "open", actual_temp |-> NoneInt,
                  winning_bucket |-> NoTitle, pnl |-> NoPnl, exit |-> NoExit,
                  created_at |-> t, updated_at |-> t, settled_at |-> NoneInt]
    IN  IF FindTrade(hist, trade_id) # 0
        THEN UpdateTrade(hist, trade_id, pos, leg1_key, leg2_key, forecast_data, t)
        ELSE [hist EXCEPT !.trades = Append(@, trade)]

(* record_forecast_update *)
RecordForecastUpdate(hist, trade_id, forecast_data, t) ==
    LET i == FindTrade(hist, trade_id)
    IN  IF i = 0 THEN hist
        ELSE [hist EXCEPT !.trades[i].forecasts = Append(@, ForecastEntry(forecast_data, t)),
                          !.trades[i].updated_at = t]

(* record_sale *)
RecordSale(hist, trade_id, leg_key, sold_price, t) ==
    LET i == FindTrade(hist, trade_id)
        trade == hist.trades[i]
        sell(leg) == [leg EXCEPT !.sold_price = sold_price, !.sold_timestamp = t,
                                 !.status = "sold", !.pnl = sold_price - leg.fill_price]
    IN  IF i = 0 THEN hist
        ELSE IF trade.leg1.key = leg_key
        THEN [hist EXCEPT !.trades[i].leg1 = sell(@), !.trades[i].updated_at = t]
        ELSE IF trade.leg2.key = leg_key
        THEN [hist EXCEPT !.trades[i].leg2 = sell(@), !.trades[i].updated_at = t]
        ELSE hist

RECURSIVE SumSeq(_)
SumSeq(seq) == IF seq = <<>> THEN 0 ELSE seq[1] + SumSeq(Tail(seq))

RECURSIVE SumOver(_, _)
SumOver(f, keys) ==
    IF keys = {} THEN 0
    ELSE LET k == CHOOSE x \in keys : TRUE IN f[k] + SumOver(f, keys \ {k})

CountOutcome(trades, outcome) ==
    Cardinality({i \in 1..Len(trades) : trades[i].outcome = outcome})

(* The statistics of one market date with the de-risk P&L subtracted. *)
DailySummaryDeriskSubtracted(date_trades) ==
    LET n == Len(date_trades)
        won_profit == SumSeq([i \in 1..n |->
                         IF date_trades[i].outcome = "win"
                         THEN 100 - date_trades[i].total_cost ELSE 0])
        lost_loss == SumSeq([i \in 1..n |->
                        IF date_trades[i].outcome = "loss"
                        THEN date_trades[i].total_cost ELSE 0])
        derisk_pnl == SumSeq([i \in 1..n |->
                         IF date_trades[i].outcome = "derisked"
                            /\ date_trades[i].pnl # NoPnl
                         THEN date_trades[i].pnl ELSE 0])
        wins == CountOutcome(date_trades, "win")
        losses == CountOutcome(date_trades, "loss")
        derisked == CountOutcome(date_trades, "derisked")
    IN  [wins |-> wins, losses |-> losses, derisked |-> derisked,
         open |-> n - wins - losses - derisked, total_trades |-> n,
         won_profit |-> won_profit, lost_loss |-> lost_loss,
         derisk_pnl |-> derisk_pnl,
         net_profit |-> won_profit - lost_loss - derisk_pnl,
         total_invested |-> SumSeq([i \in 1..n |-> date_trades[i].total_cost])]

(* The statistics of one market date in _update_summary. *)
DailySummary(date_trades) ==
    LET n == Len(date_trades)
        won_profit == SumSeq([i \in 1..n |->
                         IF date_trades[i].outcome = "win"
                         THEN 100 - date_trades[i].total_cost ELSE 0])
        lost_loss == SumSeq([i \in 1..n |->
                        IF date_trades[i].outcome = "loss"
                        THEN date_trades[i].total_cost ELSE 0])
        derisk_pnl == SumSeq([i \in 1..n |->
                         IF date_trades[i].outcome = "derisked"
                            /\ date_trades[i].pnl # NoPnl
                         THEN date_trades[i].pnl ELSE 0])
        wins == CountOutcome(date_trades, "win")
        losses == CountOutcome(date_trades, "loss")
        derisked == CountOutcome(date_trades, "derisked")
    IN  [wins |-> wins, losses |-> losses, derisked |-> derisked,
         open |-> n - wins - losses - derisked, total_trades |-> n,
         won_profit |-> won_profit, lost_loss |-> lost_loss,
         derisk_pnl |-> derisk_pnl,
         net_profit |-> won_profit - lost_loss + derisk_pnl,
         total_invested |-> SumSeq([i \in 1..n |-> date_trades[i].total_cost])]

(* The summary block _update_summary computes from the trade list. *)
Summary(trades) ==
    LET dates == {trades[i].market_date : i \in 1..Len(trades)}
        on(d) == LET same(tr) == tr.market_date = d IN SelectSeq(trades, same)
        daily_summaries == [d \in dates |-> DailySummary(on(d))]
        total_won_profit == SumOver([d \in dates |-> daily_summaries[d].won_profit], dates)
        total_lost_loss == SumOver([d \in dates |-> daily_summaries[d].lost_loss], dates)
        total_derisk_pnl == SumOver([d \in dates |-> daily_summaries[d].derisk_pnl], dates)
    IN  [by_date |-> daily_summaries,
         totals |-> [total_trades |-> Len(trades),
                     wins |-> CountOutcome(trades, "win"),
                     losses |-> CountOutcome(trades, "loss"),
                     derisked |-> CountOutcome(trades, "derisked"),
                     open |-> CountOutcome(trades, "open"),
                     won_profit |-> total_won_profit,
                     lost_loss |-> total_lost_loss,
                     derisk_pnl |-> total_derisk_pnl,
                     net_profit |-> total_won_profit - total_lost_loss + total_derisk_pnl,
                     total_invested |-> SumSeq([i \in 1..Len(trades) |->
                                                   trades[i].total_cost])]]

(* _update_summary *)
UpdateSummary(hist) == [hist EXCEPT !.summary = Summary(hist.trades)]

(* record_win with the P&L taken from the sale price. *)
RecordWinFromSalePrice(hist, trade_id, winning_leg_key, actual_temp, sold_price, t) ==
    LET i == FindTrade(hist, trade_id)
        trade == hist.trades[i]
        won(leg) == [leg EXCEPT !.sold_price = sold_price, !.sold_timestamp = t,
                                !.status = "won_sold"]
        pnl == sold_price - trade.total_cost
        settle(tr, bucket) ==
            [tr EXCEPT !.outcome = "win", !.actual_temp = actual_temp,
                       !.winning_bucket = bucket, !.pnl = pnl,
                       !.settled_at = t, !.updated_at = t,
                       !.exit = [type |-> "win", timestamp |-> t,
                                 sold_price |-> sold_price, pnl |-> pnl]]
    IN  IF i = 0 THEN hist
        ELSE IF trade.leg1.key = winning_leg_key
        THEN UpdateSummary([hist EXCEPT !.trades[i] =
                 settle([trade EXCEPT !.leg1 = won(@)], trade.leg1.title)])
        ELSE IF trade.leg2.key = winning_leg_key
        THEN UpdateSummary([hist EXCEPT !.trades[i] =
                 settle([trade EXCEPT !.leg2 = won(@)], trade.leg2.title)])
        ELSE hist

(* record_win *)
RecordWin(hist, trade_id, winning_leg_key, actual_temp, sold_price, t) ==
    LET i == FindTrade(hist, trade_id)
        trade == hist.trades[i]
        won(leg) == [leg EXCEPT !.sold_price = sold_price, !.sold_timestamp = t,
                                !.status = "won_sold"]
        pnl == 100 - trade.total_cost
        settle(tr, bucket) ==
            [tr EXCEPT !.outcome = "win", !.actual_temp = actual_temp,
                       !.winning_bucket = bucket, !.pnl = pnl,
                       !.settled_at = t, !.updated_at = t,
                       !.exit = [type |-> "win", timestamp |-> t,
                                 sold_price |-> sold_price, pnl |-> pnl]]
    IN  IF i = 0 THEN hist
        ELSE IF trade.leg1.key = winning_leg_key
        THEN UpdateSummary([hist EXCEPT !.trades[i] =
                 settle([trade EXCEPT !.leg1 = won(@)], trade.leg1.title)])
        ELSE IF trade.leg2.key = winning_leg_key
        THEN UpdateSummary([hist EXCEPT !.trades[i] =
                 settle([trade EXCEPT !.leg2 = won(@)], trade.leg2.title)])
        ELSE hist

(* record_loss with the cost recorded unsigned. *)
RecordLossUnsigned(hist, trade_id, actual_temp, t) ==
    LET i == FindTrade(hist, trade_id)
        trade == hist.trades[i]
        pnl == trade.total_cost
    IN  IF i = 0 THEN hist
        ELSE UpdateSummary([hist EXCEPT !.trades[i] =
                 [trade EXCEPT !.outcome = "loss", !.actual_temp = actual_temp,
                               !.pnl = pnl, !.settled_at = t, !.updated_at = t,
                               !.exit = [type |-> "loss", timestamp |-> t, pnl |-> pnl]]])

(* record_loss *)
RecordLoss(hist, trade_id, actual_temp, t) ==
    LET i == FindTrade(hist, trade_id)
        trade == hist.trades[i]
        pnl == 0 - trade.total_cost
    IN  IF i = 0 THEN hist
        ELSE UpdateSummary([hist EXCEPT !.trades[i] =
                 [trade EXCEPT !.outcome = "loss", !.actual_temp = actual_temp,
                               !.pnl = pnl, !.settled_at = t, !.updated_at = t,
                               !.exit = [type |-> "loss", timestamp |-> t, pnl |-> pnl]]])

(* record_derisk that takes leg1 as the sold leg whatever the key. *)
RecordDeriskSellsFirstLeg(hist, trade_id, sold_leg_key, sold_price, cancelled_leg_key, t) ==
    LET i == FindTrade(hist, trade_id)
        trade == hist.trades[i]
        first == TRUE
        sold_leg == IF first THEN trade.leg1 ELSE trade.leg2
        entry_price == sold_leg.fill_price
        pnl == sold_price - entry_price
        sold(leg) == [leg EXCEPT !.sold_price = sold_price, !.sold_timestamp = t,
                                 !.status = "derisk_sold", !.pnl = pnl]
        cancelled(leg) == [leg EXCEPT !.status = "derisk_cancelled",
                                      !.cancelled_timestamp = t]
    IN  IF i = 0 THEN hist
        ELSE UpdateSummary([hist EXCEPT !.trades[i] =
                 [trade EXCEPT !.leg1 = IF first THEN sold(@) ELSE cancelled(@),
                               !.leg2 = IF first THEN cancelled(@) ELSE sold(@),
                               !.outcome = "derisked", !.pnl = pnl,
                               !.settled_at = t, !.updated_at = t,
                               !.exit = [type |-> "derisk", timestamp |-> t,
                                         sold_leg |-> sold_leg_key,
                                         sold_price |-> sold_price,
                                         entry_price |-> entry_price, pnl |-> pnl]]])

(* record_derisk *)
RecordDerisk(hist, trade_id, sold_leg_key, sold_price, cancelled_leg_key, t) ==
    LET i == FindTrade(hist, trade_id)
        trade == hist.trades[i]
        first == trade.leg1.key = sold_leg_key
        sold_leg == IF first THEN trade.leg1 ELSE trade.leg2
        entry_price == sold_leg.fill_price
        pnl == sold_price - entry_price
        sold(leg) == [leg EXCEPT !.sold_price = sold_price, !.sold_timestamp = t,
                                 !.status = "derisk_sold", !.pnl = pnl]
        cancelled(leg) == [leg EXCEPT !.status = "derisk_cancelled",
                                      !.cancelled_timestamp = t]
    IN  IF i = 0 THEN hist
        ELSE UpdateSummary([hist EXCEPT !.trades[i] =
                 [trade EXCEPT !.leg1 = IF first THEN sold(@) ELSE cancelled(@),
                               !.leg2 = IF first THEN cancelled(@) ELSE sold(@),
                               !.outcome = "derisked", !.pnl = pnl,
                               !.settled_at = t, !.updated_at = t,
                               !.exit = [type |-> "derisk", timestamp |-> t,
                                         sold_leg |-> sold_leg_key,
                                         sold_price |-> sold_price,
                                         entry_price |-> entry_price, pnl |-> pnl]]])

(* dashboard.sell_contract: the record of a leg sold at the bid. *)
MarkSold(pos, key, current_bid, t) ==
    [pos EXCEPT ![key] = [@ EXCEPT !.status = "sold", !.sold_price = current_bid,
                                   !.sold_timestamp = t,
                                   !.pnl = current_bid - pos[key].limit_price]]

LedgerSeries == "KXHIGHDEN"
LedgerDates == <<"D0", "D1">>
LowerLeg(date) == <<LedgerSeries, date, "B49">>
UpperLeg(date) == <<LedgerSeries, date, "B50">>
TradeIdOf(date) == GenerateTradeId(LedgerSeries, LowerLeg(date))

(* The keys of positions.json in the order they were first entered: by    *)
(* day, the lower bucket of a hedge before the upper one.                  *)
KeyOrder ==
    <<Key(LowerLeg("D0"), "yes"), Key(UpperLeg("D0"), "yes"),
      Key(LowerLeg("D1"), "yes"), Key(UpperLeg("D1"), "yes")>>

(* The body of the "for hedge_key, legs" loop of import_from_positions. *)
ImportHedge(hist, pos, legs, forecast_data, t) ==
    LET leg1_key == legs[1]
        leg2_key == legs[2]
        leg1 == pos[leg1_key]
        leg2 == pos[leg2_key]
        trade_id == GenerateTradeId(leg1.series, leg1.ticker)
        entered == RecordHedgeEntry(hist, pos, leg1_key, leg2_key, forecast_data, t)
        won(status) == status \in {"won_sold", "sold"}
        winning_key == IF won(leg1.status) THEN leg1_key ELSE leg2_key
        winning_pos == IF won(leg1.status) THEN leg1 ELSE leg2
    IN  IF Len(legs) # 2 THEN hist
        ELSE IF won(leg1.status) \/ won(leg2.status)
        THEN RecordWin(entered, trade_id, winning_key, NoneInt,
                       IF winning_pos.sold_price = NoneInt THEN 99
                       ELSE winning_pos.sold_price, t)
        ELSE IF leg1.status = "derisk_sold"
        THEN RecordDerisk(entered, trade_id, leg1_key,
                          IF leg1.sold_price = NoneInt THEN 0 ELSE leg1.sold_price,
                          leg2_key, t)
        ELSE IF leg2.status = "derisk_sold"
        THEN RecordDerisk(entered, trade_id, leg2_key,
                          IF leg2.sold_price = NoneInt THEN 0 ELSE leg2.sold_price,
                          leg1_key, t)
        ELSE entered

RECURSIVE ImportHedges(_, _, _, _, _)
ImportHedges(hist, pos, hedge_keys, forecast_data, t) ==
    IF hedge_keys = <<>> THEN hist
    ELSE LET hedge_key == Head(hedge_keys)
             of_hedge(k) == /\ k \in DOMAIN pos
                            /\ pos[k].series # NoSeries
                            /\ <<pos[k].series, pos[k].ticker[2]>> = hedge_key
             legs == SelectSeq(KeyOrder, of_hedge)
         IN  ImportHedges(ImportHedge(hist, pos, legs, forecast_data, t), pos,
                          Tail(hedge_keys), forecast_data, t)

(* import_from_positions *)
ImportFromPositions(hist, pos, forecast_data, t) ==
    LET hedge_keys == [i \in 1..Len(LedgerDates) |-> <<LedgerSeries, LedgerDates[i]>>]
    IN  ImportHedges(hist, pos, hedge_keys, forecast_data, t)

(* dashboard.save_results *)
SaveResults(hist, pos, forecast_data, t) ==
    UpdateSummary(ImportFromPositions(hist, pos, forecast_data, t))

(* The Leg stores the ledger is fed from: per market day, a hedge entered  *)
(* with both legs filled, with only the lower leg filled, de-risked, or    *)
(* with its upper leg sold from the dashboard.                             *)
HoldingBoth(date) ==
    [raised |-> FALSE, status |-> 200,
     market_positions |-> [tk \in {LowerLeg(date), UpperLeg(date)} |-> 1]]
HoldingLower(date) ==
    [raised |-> FALSE, status |-> 200,
     market_positions |-> [tk \in {LowerLeg(date)} |-> 1]]

Entered(date, fetch) ==
    ExecuteHedgeTradeOp(EmptyList, LedgerSeries, LowerLeg(date), UpperLeg(date),
                        OrderPlaced("ord-a"), fetch, OrderPlaced("ord-b"), fetch, 0)

Derisked(date) ==
    LET pos == Entered(date, HoldingLower(date))
        hedge == CHOOSE h \in FindPartialFillHedges(pos) : TRUE
    IN  ExecuteDerisk(pos, hedge, Quote(20, 25), TRUE, OrderPlaced("ord-b"), 0).pos

Sold(date) == MarkSold(Entered(date, HoldingBoth(date)), Key(UpperLeg(date), "yes"), 60, 0)

LedgerStores ==
    {Entered("D1", HoldingBoth("D1")), Entered("D1", HoldingLower("D1")),
     Derisked("D1"), Sold("D1")}

(* The ledger of a session that starts with no history file, and the one   *)
(* that holds an earlier day's hedge, settled as a loss.                   *)
EarlierHistory ==
    RecordLoss(
        RecordHedgeEntry(EmptyHistory, Entered("D0", HoldingBoth("D0")),
                         Key(LowerLeg("D0"), "yes"), Key(UpperLeg("D0"), "yes"),
                         NoForecast, 0),
        TradeIdOf("D0"), NoneInt, 0)

LedgerHistories == {EmptyHistory, EarlierHistory}

SoldPrices == {40}
WinPrices == {99}
ActualTemps == {NoneInt}

(* Dates whose two legs are in the store. *)
HedgedDates == {d \in {"D0", "D1"} : Key(LowerLeg(d), "yes") \in DOMAIN positions}
LegKeys(date) == {Key(LowerLeg(date), "yes"), Key(UpperLeg(date), "yes")}

(* The forecast list of a trade is followed up to MaxForecasts entries. *)
RoomFor(trade_id) ==
    LET i == FindTrade(history, trade_id)
    IN  IF i = 0 THEN TRUE ELSE Len(history.trades[i].forecasts) < MaxForecasts

(* The ledger is written one observation after the hedges were entered. *)
InitLedger ==
    /\ positions \in LedgerStores
    /\ now = 1
    /\ last = Idle
    /\ InitDiscoveryIdle
    /\ history \in LedgerHistories

LedgerStep(op, hist) ==
    /\ history' = hist
    /\ last' = [op |-> op]
    /\ UNCHANGED <<positions, now, markets, forecast_temp, opportunity>>

RecordHedgeEntryAct ==
    \E date \in HedgedDates, forecast_data \in ForecastInputs :
        /\ forecast_data.present => RoomFor(TradeIdOf(date))
        /\ LedgerStep("record_hedge_entry",
                      RecordHedgeEntry(history, positions, Key(LowerLeg(date), "yes"),
                                       Key(UpperLeg(date), "yes"), forecast_data, Clock))

UpdateTradeAct ==
    \E date \in HedgedDates, forecast_data \in ForecastInputs :
        /\ forecast_data.present => RoomFor(TradeIdOf(date))
        /\ LedgerStep("update_trade",
                      UpdateTrade(history, TradeIdOf(date), positions,
                                  Key(LowerLeg(date), "yes"), Key(UpperLeg(date), "yes"),
                                  forecast_data, Clock))

RecordForecastUpdateAct ==
    \E date \in HedgedDates :
        /\ RoomFor(TradeIdOf(date))
        /\ LedgerStep("record_forecast_update",
                      RecordForecastUpdate(history, TradeIdOf(date), ForecastData, Clock))

RecordSaleAct ==
    \E date \in HedgedDates, sold_price \in SoldPrices :
        \E leg_key \in LegKeys(date) :
            LedgerStep("record_sale",
                       RecordSale(history, TradeIdOf(date), leg_key, sold_price, Clock))

RecordWinAct ==
    \E date \in HedgedDates, sold_price \in WinPrices, actual_temp \in ActualTemps :
        \E leg_key \in LegKeys(date) :
            LedgerStep("record_win",
                       RecordWin(history, TradeIdOf(date), leg_key, actual_temp,
                                 sold_price, Clock))

RecordLossAct ==
    \E date \in HedgedDates, actual_temp \in ActualTemps :
        LedgerStep("record_loss", RecordLoss(history, TradeIdOf(date), actual_temp, Clock))

RecordDeriskAct ==
    \E date \in HedgedDates, sold_price \in SoldPrices :
        \E sold_key \in LegKeys(date) :
            LedgerStep("record_derisk",
                       RecordDerisk(history, TradeIdOf(date), sold_key, sold_price,
                                    CHOOSE k \in LegKeys(date) : k # sold_key, Clock))

SaveResultsAct ==
    \E forecast_data \in ForecastInputs :
        /\ forecast_data.present => \A date \in HedgedDates : RoomFor(TradeIdOf(date))
        /\ LedgerStep("save_results",
                      SaveResults(history, positions, forecast_data, Clock))

NextLedger ==
    \/ RecordHedgeEntryAct
    \/ UpdateTradeAct
    \/ RecordForecastUpdateAct
    \/ RecordSaleAct
    \/ RecordWinAct
    \/ RecordLossAct
    \/ RecordDeriskAct
    \/ SaveResultsAct

SpecLedger == InitLedger /\ [][NextLedger]_vars

-----------------------------------------------------------------------------
(* strategy.py: the partial-fill scan over stores of one or two hedges *)

(* The two orders of a hedge for the given settlement date, each for n    *)
(* contracts, tracked and tagged with the series as execute_hedge_trade   *)
(* tags them.                                                             *)
HedgeOrders(pos, date, n, t) ==
    LET lower == LowerLeg(date)
        upper == UpperLeg(date)
        pos1 == TagSeries(AddPendingOrder(pos, lower, "yes", EntryPrice(lower), n,
                                          "ord-a", t),
                          Key(lower, "yes"), LedgerSeries)
    IN  TagSeries(AddPendingOrder(pos1, upper, "yes", EntryPrice(upper), n,
                                  "ord-b", t),
                  Key(upper, "yes"), LedgerSeries)

(* The stores a scan can meet: the hedge of one day, or the hedges of two *)
(* days of the same series (run_strategy started again the next day),     *)
(* reconciled against what the venue holds of each ticker.                *)
ScanStores ==
    LET orders(n) == {HedgeOrders(EmptyList, "D1", n, 0),
                      HedgeOrders(HedgeOrders(EmptyList, "D0", n, 0), "D1", n, 0)}
        tickers(pos) == {pos[k].ticker : k \in DOMAIN pos}
    IN  UNION { UNION { { ReconcilePendingOrders(
                              pos, [raised |-> FALSE, status |-> 200,
                                    market_positions |-> held], 0) :
                          held \in [tickers(pos) -> 0..MaxCount] } :
                        pos \in orders(n) } :
                n \in 1..MaxCount }

InitScan ==
    /\ positions \in ScanStores
    /\ now = 0
    /\ last = Idle
    /\ InitDiscoveryIdle
    /\ history = EmptyHistory

FindPartialFillHedgesAct ==
    /\ last' = [op |-> "find_partial_fill_hedges",
                hedges |-> FindPartialFillHedges(positions)]
    /\ UNCHANGED <<positions, now, nonLegVars>>

SpecScan == InitScan /\ [][FindPartialFillHedgesAct]_vars

-----------------------------------------------------------------------------
(* strategy.py: the wait gate and the evaluation on drawn instants and quotes *)

(* The instants datetime.now() is read at, in minutes: 15 h, 10 h, 6 h,   *)
(* 5 h, 2 h and 1 h before the close of D1.                               *)
PolicyInstants == {0, 300, 540, 600, 780, 840}

(* What get_market_price answers for the pending leg. *)
EvalQuotes ==
    {NoPrices, Quote(0, 0), Quote(0, 40), Quote(29, 30), Quote(30, 32),
     Quote(35, 37), Quote(50, 52), Quote(57, 60), Quote(99, 100)}

(* A partial hedge: either leg of D1 filled, or the lower leg of a hedge  *)
(* whose ticker date does not parse.                                      *)
InitPolicy ==
    /\ positions \in
          {Entered("D1", HoldingLower("D1")),
           Entered("D1", [raised |-> FALSE, status |-> 200,
                          market_positions |-> [tk \in {UpperLeg("D1")} |-> 1]]),
           Entered("D0", HoldingLower("D0"))}
    /\ now = 0
    /\ last = Idle
    /\ InitDiscoveryIdle
    /\ history = EmptyHistory

(* The gate and the evaluation monitor_partial_fills applies to a partial *)
(* hedge, at the instant t and on the quote given.                        *)
EvaluatePartialFillAct ==
    \E hedge \in FindPartialFillHedges(positions), t \in PolicyInstants,
       prices \in EvalQuotes :
        LET pending_pos == hedge.pending_pos
            known == HoursKnown(pending_pos.ticker)
            mins == MinutesUntilClose(pending_pos.ticker, t)
            wait_minutes == GetWaitMinutesForHours(known, mins)
            minutes_waiting == GetTimeSinceOrder(pending_pos, t)
            ev == EvaluatePartialFill(hedge, prices, t)
        IN  /\ last' = [op |-> "evaluate_partial_fill", known |-> known,
                        mins |-> mins, wait_minutes |-> wait_minutes,
                        minutes_waiting |-> minutes_waiting, prices |-> prices,
                        original_limit |-> pending_pos.limit_price,
                        filled_price |-> hedge.filled_pos.limit_price,
                        gated |-> minutes_waiting < wait_minutes,
                        action |-> ev.action,
                        new_maker_price |-> ev.new_maker_price]
            /\ UNCHANGED <<positions, now, nonLegVars>>

SpecPolicy == InitPolicy /\ [][EvaluatePartialFillAct]_vars

-----------------------------------------------------------------------------
(* dashboard.py: the operator's buttons over the Leg store *)

(* sell_contract: quote the leg, post a sell order at the bid; once the   *)
(* venue accepts it, mark the leg sold and record the win in the ledger.  *)
(* posted is whether the venue answered the order with 200 or 201.        *)
SellContract(pos, hist, pos_key, prices, posted, actual_temp, t) ==
    LET current_bid == IF prices.ok THEN prices.yes_bid ELSE 0
        unchanged == [pos |-> pos, hist |-> hist, success |-> FALSE]
    IN  IF ~prices.ok THEN unchanged
        ELSE IF current_bid <= 0 THEN unchanged
        ELSE IF ~posted THEN unchanged
        ELSE LET pos1 == IF pos_key \in DOMAIN pos
                         THEN MarkSold(pos, pos_key, current_bid, t)
                         ELSE pos
                 trade_id == GenerateTradeId(pos[pos_key].series, pos[pos_key].ticker)
             IN  [pos |-> pos1,
                  hist |-> RecordWin(hist, trade_id, pos_key, actual_temp,
                                     current_bid, t),
                  success |-> TRUE]

(* reset_session: save_positions({}) *)
ResetSession(pos) == EmptyList

DashboardQuotes == {NoPrices, Quote(0, 5), Quote(60, 62)}

(* The dashboard shows a Sell button for each leg of the store. *)
SellContractAct ==
    \E pos_key \in DOMAIN positions, prices \in DashboardQuotes,
       posted \in BOOLEAN, actual_temp \in ActualTemps :
        LET r == SellContract(positions, history, pos_key, prices, posted,
                              actual_temp, Clock)
        IN  /\ positions' = r.pos
            /\ history' = r.hist
            /\ last' = [op |-> "sell_contract", key |-> pos_key,
                        success |-> r.success]
            /\ UNCHANGED <<now, markets, forecast_temp, opportunity>>

ResetSessionAct ==
    /\ positions' = ResetSession(positions)
    /\ last' = [op |-> "reset_session"]
    /\ UNCHANGED <<now, nonLegVars>>

(* sync_with_kalshi is ReconcileAct: it reconciles against the venue's    *)
(* holdings.                                                              *)
NextDashboard ==
    \/ Tick
    \/ AddPendingOrderAct
    \/ ReconcileAct
    \/ SellContractAct
    \/ ResetSessionAct

(* The Leg store under order tracking, reconciliation and the dashboard. *)
SpecDashboard == Init /\ [][NextDashboard]_vars

(* A discovery cycle of a session whose store holds an earlier hedge. *)
InitDiscovery ==
    /\ positions = Entered("D1", HoldingBoth("D1"))
    /\ now = 0
    /\ last = Idle
    /\ markets \in MarketLists
    /\ forecast_temp \in Forecasts
    /\ opportunity = NotRun
    /\ history = EmptyHistory

(* run_once evaluates find_hedge_opportunity on every cycle; again tells  *)
(* whether an earlier evaluation had been made.                           *)
Discover ==
    /\ opportunity' = FindHedgeOpportunity(markets, forecast_temp)
    /\ last' = [op |-> "find_hedge_opportunity", again |-> opportunity.run]
    /\ UNCHANGED <<markets, forecast_temp, history, positions, now>>

(* Between two evaluations the dashboard may save the session to the      *)
(* ledger and clear the store.                                            *)
NextDiscovery ==
    \/ Discover
    \/ SaveResultsAct
    \/ ResetSessionAct

SpecDiscovery == InitDiscovery /\ [][NextDiscovery]_vars

(* find_hedge_opportunity alone, over every snapshot and forecast. *)
SpecPairSelection == InitDiscovery /\ [][Discover]_vars

(* The policy over a hedge entered at the price limits: discovery         *)
(* returned both buckets at MAX_BUCKET_PRICE, execute_hedge_trade placed  *)
(* both orders, and the lower leg has filled.                             *)
InitBudget ==
    /\ positions =
          TagSeries(
              TagSeries(
                  ReconcilePendingOrders(
                      AddPendingOrder(
                          AddPendingOrder(EmptyList, LowerTicker, "yes",
                                          MAX_BUCKET_PRICE, 1, "ord-a", 0),
                          UpperTicker, "yes", MAX_BUCKET_PRICE, 1, "ord-a", 0),
                      HoldingLower("D1"), 0),
                  Key(LowerTicker, "yes"), LowerTicker[1]),
              Key(UpperTicker, "yes"), LowerTicker[1])
    /\ now = 0
    /\ last = Idle
    /\ InitDiscoveryIdle
    /\ history = EmptyHistory

NextBudget ==
    \/ Tick
    \/ MonitorPartialFills

SpecBudget == InitBudget /\ [][NextBudget]_vars

(* The dashboard and the strategy on the one positions.json.  A           *)
(* reconcile_pending_orders call is two steps: load_positions, and, once  *)
(* fetch_positions_fn has answered, the update of the loaded copy and     *)
(* save_positions.  While the call is in flight, last holds its copy.     *)
ReconcileLoadAct ==
    /\ last.op # "reconcile_load"
    /\ last' = [op |-> "reconcile_load", loaded |-> positions]
    /\ UNCHANGED <<positions, now, nonLegVars>>

(* sell_contract from the dashboard while the reconciliation waits for    *)
(* the venue.                                                             *)
SellContractMeanwhile ==
    /\ last.op = "reconcile_load"
    /\ \E pos_key \in DOMAIN positions, prices \in DashboardQuotes,
          posted \in BOOLEAN, actual_temp \in ActualTemps :
           LET r == SellContract(positions, history, pos_key, prices, posted,
                                 actual_temp, Clock)
           IN  /\ positions' = r.pos
               /\ history' = r.hist
    /\ UNCHANGED <<last, now, markets, forecast_temp, opportunity>>

(* The rest of the call: the copy loaded is reconciled and, when it held  *)
(* a pending or partial Leg (changed), written over the file.             *)
ReconcileSaveAct ==
    /\ last.op = "reconcile_load"
    /\ \E fetch \in FetchOutcomes :
           LET loaded == last.loaded
               changed == /\ ~fetch.raised
                          /\ \E k \in DOMAIN loaded :
                                 loaded[k].status \in {"pending", "partial"}
           IN  /\ positions' = IF changed
                                THEN ReconcilePendingOrders(loaded, fetch, Clock)
                                ELSE positions
               /\ last' = [op |-> "reconcile_save", fetch |-> FetchKind(fetch),
                           saved |-> changed]
    /\ UNCHANGED <<now, nonLegVars>>

NextShared ==
    \/ AddPendingOrderAct
    \/ ReconcileLoadAct
    \/ SellContractMeanwhile
    \/ ReconcileSaveAct

SpecShared == Init /\ [][NextShared]_vars

(* A hedge from its entry to its resolution: seven hours after the entry  *)
(* the lower leg has filled; the policy passes over the store, the        *)
(* session is saved to the ledger, and the trade is recorded as won or    *)
(* lost.                                                                  *)
InitSettle ==
    /\ positions = Entered("D1", HoldingLower("D1"))
    /\ now = 1
    /\ last = Idle
    /\ InitDiscoveryIdle
    /\ history = EmptyHistory

NextSettle ==
    \/ MonitorPartialFills
    \/ SaveResultsAct
    \/ RecordWinAct
    \/ RecordLossAct

SpecSettle == InitSettle /\ [][NextSettle]_vars

(* C40: when a trade has just been recorded as won or lost, its          *)
(* total_cost is the sum of the limit prices its two legs have in the Leg *)
(* store at that time.                                                    *)
C40_CostOfResolvedTrade ==
    last.op \in {"record_win", "record_loss"} =>
        \A i \in 1..Len(history.trades) :
            LET trade == history.trades[i]
            IN  (/\ trade.outcome \in {"win", "loss"}
                 /\ {trade.leg1.key, trade.leg2.key} \subseteq DOMAIN positions)
                => trade.total_cost = positions[trade.leg1.key].limit_price
                                      + positions[trade.leg2.key].limit_price

-----------------------------------------------------------------------------
(* trade_history.py: the summary over ledgers of several hedges *)

SummarySeries == <<"KXHIGHDEN", "KXHIGHNY">>
SummaryDates == <<"D1", "D2", "D3">>

(* The i-th hedge: the two cities' hedges of a day, then the next day's;  *)
(* entry costs 60, 55, 50, ...                                             *)
HedgeSeries(i) == SummarySeries[((i - 1) % 2) + 1]
HedgeDate(i) == SummaryDates[(i + 1) \div 2]
HedgeLower(i) == <<HedgeSeries(i), HedgeDate(i), "B49">>
HedgeUpper(i) == <<HedgeSeries(i), HedgeDate(i), "B50">>
HedgeUpperPrice(i) == 35 - 5 * i

(* positions.json with the i-th hedge entered and both legs filled. *)
HedgeStore(i) ==
    LET tracked == AddPendingOrder(
                       AddPendingOrder(EmptyList, HedgeLower(i), "yes", 30, 1, "ord-a", 0),
                       HedgeUpper(i), "yes", HedgeUpperPrice(i), 1, "ord-b", 0)
        held == [raised |-> FALSE, status |-> 200,
                 market_positions |-> [tk \in {HedgeLower(i), HedgeUpper(i)} |-> 1]]
        filled == ReconcilePendingOrders(tracked, held, 0)
    IN  TagSeries(TagSeries(filled, Key(HedgeLower(i), "yes"), HedgeSeries(i)),
                  Key(HedgeUpper(i), "yes"), HedgeSeries(i))

(* What became of a hedge: never recorded, still open, won, lost, or      *)
(* de-risked by selling its lower leg (entry 30) at 20 or at 40.           *)
Fates == {"absent", "open", "win", "loss", "derisk_at_20", "derisk_at_40"}

(* The ledger after the i-th hedge was recorded and met its fate. *)
RecordFate(hist, i, fate) ==
    LET lower == Key(HedgeLower(i), "yes")
        upper == Key(HedgeUpper(i), "yes")
        trade_id == GenerateTradeId(HedgeSeries(i), HedgeLower(i))
        entered == RecordHedgeEntry(hist, HedgeStore(i), lower, upper, NoForecast, 0)
    IN  CASE fate = "absent" -> hist
          [] fate = "open" -> entered
          [] fate = "win" -> RecordWin(entered, trade_id, upper, NoneInt, 99, 0)
          [] fate = "loss" -> RecordLoss(entered, trade_id, NoneInt, 0)
          [] fate = "derisk_at_20" -> RecordDerisk(entered, trade_id, lower, 20, upper, 0)
          [] fate = "derisk_at_40" -> RecordDerisk(entered, trade_id, lower, 40, upper, 0)

RECURSIVE LedgerOf(_, _)
LedgerOf(fates, n) ==
    IF n = 0 THEN EmptyHistory
    ELSE RecordFate(LedgerOf(fates, n - 1), n, fates[n])

SummaryHistories == {LedgerOf(fates, MaxTrades) : fates \in [1..MaxTrades -> Fates]}

InitSummary ==
    /\ InitLegs
    /\ InitDiscoveryIdle
    /\ history \in SummaryHistories

(* dashboard.save_results, second half: reload, _update_summary, save. *)
UpdateSummaryAct ==
    /\ history' = UpdateSummary(history)
    /\ last' = [op |-> "update_summary"]
    /\ UNCHANGED <<positions, now, markets, forecast_temp, opportunity>>

NextSummary == UpdateSummaryAct

SpecSummary == InitSummary /\ [][NextSummary]_vars

-----------------------------------------------------------------------------
(* Properties of the Leg store *)

NonTerminal(rec) == rec.status \notin TerminalStatuses

StatusRank(status) ==
    IF status = "pending" THEN 0 ELSE IF status = "partial" THEN 1 ELSE 2

LaterInstants == {k * StepMin : k \in now..MaxTick}

(* C1: across add_pending_order, reconcile, reprice and de-risk calls a    *)
(* Leg's status never regresses along pending -> partial -> filled, and    *)
(* only a de-risk or sale moves a Leg to a terminal status.                *)
C1_StatusNeverRegresses ==
    [][\A k \in DOMAIN positions \cap DOMAIN positions' :
          /\ (positions[k].status \in {"pending", "partial", "filled"}
               /\ positions'[k].status \in {"pending", "partial", "filled"})
              => StatusRank(positions'[k].status) >= StatusRank(positions[k].status)
          /\ (NonTerminal(positions[k]) /\ ~NonTerminal(positions'[k]))
              => (last'.op = "monitor" /\ last'.decision = "derisk")]_vars

C4_DuplicateLegRejected ==
    [][\A k \in DOMAIN positions :
          (last'.op = "add_pending_order" /\ last'.key = k /\ NonTerminal(positions[k]))
              => (last'.error = "DuplicateLegError" /\ positions' = positions)]_vars

(* C5: reconciliation is idempotent: for the Leg store at hand and every  *)
(* outcome of the holdings query, a second reconcile_pending_orders with   *)
(* the same outcome, at the same or any later time, changes no Leg field.  *)
C5_ReconcileIdempotent ==
    \A fetch \in FetchOutcomes : \A t2 \in LaterInstants :
        LET once == ReconcilePendingOrders(positions, fetch, Clock)
        IN  ReconcilePendingOrders(once, fetch, t2) = once

(* C5 witness: a reconcile has run on a successful query and left a       *)
(* partial Leg first seen filled at an earlier instant and a filled Leg.   *)
C5_Witness ==
    /\ last.op = "reconcile" /\ last.fetch = "ok"
    /\ \E k \in DOMAIN positions :
          positions[k].status = "partial" /\ positions[k].filled_timestamp < Clock
    /\ \E k \in DOMAIN positions : positions[k].status = "filled"

(* The holdings query failed: it raised, or the venue did not answer 200. *)
FetchFailed(fetch) == fetch.raised \/ fetch.status # 200

(* C16: when the holdings query fails, the caller of                      *)
(* reconcile_pending_orders gets something it cannot get from a successful *)
(* reconciliation that found no fills.                                     *)
C16_FailurePropagates ==
    (DOMAIN positions # {}) =>
        \A bad \in {f \in FetchOutcomes : FetchFailed(f)} :
            LET no_fills == [raised |-> FALSE, status |-> 200,
                             market_positions |-> EmptyList]
            IN  ReconcileReturn(positions, bad, Clock)
                    # ReconcileReturn(positions, no_fills, Clock)

(* C17: whatever the venue answers, a reconciliation leaves every Leg     *)
(* whose status is neither pending nor partial exactly as it was.         *)
C17_TerminalLegsUntouched ==
    \A fetch \in PolicyFetches :
        \A k \in DOMAIN positions :
            positions[k].status \notin {"pending", "partial"}
                => ReconcilePendingOrders(positions, fetch, Clock)[k] = positions[k]

(* A pass whose reconciliation went over a sold leg and a cancelled one. *)
C17_Witness ==
    /\ last.op = "monitor"
    /\ last.fetch = "ok"
    /\ \E k \in DOMAIN last.pre : last.pre[k] = "derisk_sold"
    /\ \E k \in DOMAIN last.pre : last.pre[k] = "derisk_cancelled"
    /\ \E k \in DOMAIN positions : positions[k].status = "derisk_sold"

(* C18: no operation removes a Leg from the store; a key once present    *)
(* stays present.                                                         *)
C18_LegsNeverDeleted ==
    [][\A k \in DOMAIN positions : k \in DOMAIN positions']_vars

(* C30: for a pending or partial Leg a reconciliation that reaches the    *)
(* venue sets the status by the count reported for the Leg's ticker:      *)
(* pending with count 0 when it is 0 or the ticker is absent, partial     *)
(* with that count when it is below the intended count, filled with that  *)
(* count from the intended count on.  The fill time is stamped when the   *)
(* Leg becomes partial or filled, and a partial Leg keeps its first-seen  *)
(* time while it stays partial.                                           *)
C30_StatusByReportedCount ==
    \A fetch \in {f \in FetchOutcomes : ~FetchFailed(f)} :
        \A k \in DOMAIN positions :
            positions[k].status \in {"pending", "partial"} =>
                LET old == positions[k]
                    new == ReconcilePendingOrders(positions, fetch, Clock)[k]
                    held == fetch.market_positions
                    reported == IF old.ticker \in DOMAIN held THEN held[old.ticker] ELSE 0
                IN  /\ reported = 0 =>
                        /\ new.status = "pending" /\ new.count = 0
                        /\ new.filled_timestamp = old.filled_timestamp
                    /\ (0 < reported /\ reported < old.intended_count) =>
                        /\ new.status = "partial" /\ new.count = reported
                        /\ new.filled_timestamp =
                               IF old.status = "partial" THEN old.filled_timestamp
                               ELSE IF old.filled_timestamp = NoneInt THEN Clock
                               ELSE old.filled_timestamp
                        /\ new.filled_timestamp # NoneInt
                    /\ reported >= old.intended_count =>
                        /\ new.status = "filled" /\ new.count = reported
                        /\ new.filled_timestamp # NoneInt
                        /\ old.filled_timestamp = NoneInt => new.filled_timestamp = Clock

(* A reconciliation left one Leg partial with the time its fill was first *)
(* seen, an instant before another Leg was found filled.                  *)
C30_Witness ==
    /\ last.op = "reconcile" /\ last.fetch = "ok"
    /\ \E k \in DOMAIN positions, j \in DOMAIN positions :
           /\ positions[k].status = "partial"
           /\ positions[k].count = 1
           /\ positions[k].filled_timestamp = 0
           /\ positions[j].status = "filled"
           /\ positions[j].filled_timestamp = StepMin

(* C32: when the venue reports a negative count for the ticker of a      *)
(* pending or partial Leg, the reconciliation surfaces a fault to its     *)
(* caller and leaves the Leg as it was.                                   *)
C32_NegativeCountSurfaced ==
    \A fetch \in {f \in FetchOutcomes : ~FetchFailed(f)} :
        \A k \in DOMAIN positions :
            (/\ positions[k].status \in {"pending", "partial"}
             /\ positions[k].ticker \in DOMAIN fetch.market_positions
             /\ fetch.market_positions[positions[k].ticker] < 0)
            => LET ret == ReconcileReturn(positions, fetch, Clock)
               IN  /\ ret.raised
                   /\ ret.positions[k] = positions[k]

(* C39: a Leg that sell_contract marked sold after a reconciliation had  *)
(* loaded the store is still sold once that reconciliation has saved.     *)
C39_SaleSurvivesReconcile ==
    [][(last.op = "reconcile_load" /\ last'.op = "reconcile_save")
       => \A k \in DOMAIN positions \cap DOMAIN last.loaded :
              (last.loaded[k].status # "sold" /\ positions[k].status = "sold")
              => (k \in DOMAIN positions' /\ positions'[k].status = "sold")]_vars

-----------------------------------------------------------------------------
(* Properties of the partial-fill policy *)

(* C3: a reprice submits the new buy order only after the previous order  *)
(* was successfully cancelled; otherwise it aborts: no order is placed.    *)
C3_RepriceOnlyAfterCancel ==
    (last.op = "monitor" /\ last.decision = "reprice" /\ last.calls.buy_sent)
        => last.calls.cancel_ok

(* C6: for a partial hedge whose pending leg has fewer than 2 hours to    *)
(* close, the decision is derisk, whatever the price and forecast lookups  *)
(* return.                                                                 *)
C6_Under2hAlwaysDerisk ==
    (last.op = "monitor" /\ last.found /\ last.under_2h) => last.decision = "derisk"

(* C8: on a successful de-risk sale the filled leg becomes derisk_sold    *)
(* with sold price = the bid sold at and pnl = sale price - limit price,   *)
(* and the pending leg becomes derisk_cancelled; when the sale fails no    *)
(* Leg's status changes.                                                   *)
C8_DeriskOutcome ==
    (last.op = "monitor" /\ last.decision = "derisk") =>
        IF last.success
        THEN LET f == positions[last.filled_key]
                 p == positions[last.pending_key]
             IN  /\ last.calls.sell_sent
                 /\ f.status = "derisk_sold"
                 /\ f.sold_price = last.calls.sell_price
                 /\ f.pnl = last.calls.sell_price - f.limit_price
                 /\ p.status = "derisk_cancelled"
                 /\ \A k \in DOMAIN positions \ {last.filled_key, last.pending_key} :
                        positions[k].status = last.pre[k]
        ELSE Statuses(positions) = last.pre

(* C8 witness: a de-risk sold the filled leg at a loss, and another one   *)
(* failed at the sale.                                                     *)
C8_Witness ==
    /\ last.op = "monitor" /\ last.decision = "derisk" /\ last.success
    /\ positions[last.filled_key].pnl < 0
    /\ positions[last.pending_key].status = "derisk_cancelled"

(* C20: a de-risk whose cancellation of the pending order is refused or  *)
(* fails still sends the sell order of the filled leg, at the bid just    *)
(* quoted for it; the sale, when accepted, completes the de-risk.         *)
C20_SaleDespiteFailedCancel ==
    /\ (last.op = "monitor" /\ last.decision = "derisk"
            /\ last.calls.cancel_tried /\ ~last.calls.cancel_ok)
         => last.calls.sell_sent
    /\ \A hedge \in FindPartialFillHedges(positions) :
           \A prices \in FilledQuotes, sell \in SellOutcomes :
               (prices.ok /\ prices.yes_bid > 0) =>
                   LET r == ExecuteDerisk(positions, hedge, prices, FALSE, sell, Clock)
                   IN  /\ r.calls.sell_sent
                       /\ r.calls.sell_price = prices.yes_bid
                       /\ r.success = sell.ok

(* A de-risk sold the filled leg although the cancellation was refused. *)
C20_Witness ==
    /\ last.op = "monitor" /\ last.decision = "derisk"
    /\ last.calls.cancel_tried /\ ~last.calls.cancel_ok
    /\ last.calls.sell_sent /\ last.success
    /\ positions[last.filled_key].status = "derisk_sold"
    /\ positions[last.filled_key].sold_price = last.calls.sell_price

(* The hedge of a settlement date: whether the last scan selected it, and *)
(* whether one leg is filled while the other has one of the given         *)
(* statuses.                                                              *)
Selected(date) ==
    \E h \in last.hedges : {h.filled_key, h.pending_key} = LegKeys(date)
OneFilledOther(date, others) ==
    \E f \in LegKeys(date), p \in LegKeys(date) :
        /\ f # p
        /\ positions[f].status = "filled"
        /\ positions[p].status \in others

C22_HedgePerSettlementDate ==
    last.op = "find_partial_fill_hedges" =>
        \A date \in {"D0", "D1"} :
            (LegKeys(date) \subseteq DOMAIN positions
                /\ OneFilledOther(date, {"pending"}))
            => Selected(date)

(* An evaluation that passed the gate with a quote in hand. *)
Evaluated ==
    last.op = "evaluate_partial_fill" /\ ~last.gated /\ last.prices.ok

(* C23: with six hours or more to the close, the decision is wait when    *)
(* the candidate price is at most the original limit, reprice when it is  *)
(* exactly one tick above it, and beyond that reprice when the filled     *)
(* leg's price plus the candidate stays within MAX_TOTAL_COST and derisk  *)
(* otherwise.                                                             *)
C23_SixHoursOrMore ==
    (Evaluated /\ last.known /\ last.mins >= 6 * 60) =>
        LET delta == last.new_maker_price - last.original_limit
        IN  last.action =
                IF delta <= 0 THEN "wait"
                ELSE IF delta = 1 THEN "reprice"
                ELSE IF last.filled_price + last.new_maker_price <= MAX_TOTAL_COST
                THEN "reprice"
                ELSE "derisk"

(* Eight hours to the close, limit 30, bid 35, ask 37: candidate 36, six  *)
(* ticks above the limit, and 50 + 36 within the ceiling: reprice.        *)
C23_Witness ==
    /\ Evaluated /\ last.known /\ last.mins >= 6 * 60
    /\ last.original_limit = 30
    /\ last.prices = Quote(35, 37)
    /\ last.new_maker_price = 36
    /\ last.action = "reprice"

(* C24: with between two and six hours to the close, the candidate is    *)
(* min(bid + 1, ask) clamped to 1..99, and the decision is reprice to the *)
(* candidate when it is at most the original limit + REPRICE_INCREMENT,   *)
(* derisk otherwise.                                                      *)
C24_TwoToSixHours ==
    (Evaluated /\ last.known /\ last.mins >= 2 * 60 /\ last.mins < 6 * 60) =>
        LET candidate ==
                Max(1, Min(99, Min(last.prices.yes_bid + 1, last.prices.yes_ask)))
        IN  IF candidate <= last.original_limit + REPRICE_INCREMENT
            THEN last.action = "reprice" /\ last.new_maker_price = candidate
            ELSE last.action = "derisk"

(* The dwell time required with m minutes to the close: 120 above 12 h,   *)
(* 60 from 6 h to 12 h, 20 from 2 h to 6 h, none below 2 h, and 60 when   *)
(* the time to the close is unknown.                                      *)
DwellBands ==
    [known : {TRUE}, low : {12 * 60}, high : {10000}, wait : {120}]
    \cup [known : {TRUE}, low : {6 * 60}, high : {12 * 60 + 1}, wait : {60}]
    \cup [known : {TRUE}, low : {2 * 60}, high : {6 * 60}, wait : {20}]
    \cup [known : {TRUE}, low : {0 - 10000}, high : {2 * 60}, wait : {0}]

(* Minutes to the close inside and at the ends of each band. *)
DwellSamples == {0 - 60, 0, 60, 119, 121, 300, 359, 361, 480, 720, 721, 900}

HoldsPartialHedge(pos) ==
    \E f \in DOMAIN pos, p \in DOMAIN pos :
        /\ f # p
        /\ pos[f].series # NoSeries /\ pos[f].series = pos[p].series
        /\ pos[f].status = "filled"
        /\ pos[p].status = "pending"

(* C26: in a pass the scan and the decision come after the                *)
(* reconciliation.  A pass that executes nothing leaves the store as      *)
(* reconciled, and it found a hedge exactly when that store holds one;    *)
(* a pass that reprices or de-risks acted on a hedge that was filled and  *)
(* pending in the reconciled statuses.                                    *)
C26_ReconcileBeforeScan ==
    [][(last'.op = "monitor" /\ now' = now) =>
        /\ DOMAIN last'.pre = DOMAIN positions
        /\ last'.decision \notin {"reprice", "derisk"} =>
               /\ Statuses(positions') = last'.pre
               /\ last'.found <=> HoldsPartialHedge(positions')
        /\ last'.decision \in {"reprice", "derisk"} =>
               /\ last'.found
               /\ last'.pre[last'.filled_key] = "filled"
               /\ last'.pre[last'.pending_key] = "pending"]_vars

(* The fill of one leg was first seen at the instant of the last pass,    *)
(* seven hours after the entry, and that pass acted on the partial hedge. *)
C26_Witness ==
    /\ last.op = "monitor" /\ last.found /\ last.fetch = "ok"
    /\ last.decision \in {"reprice", "derisk"}
    /\ now = 1
    /\ positions[last.filled_key].timestamp = 0
    /\ positions[last.filled_key].filled_timestamp = Clock

(* C27: when a reprice or a de-risk cancelled the pending order at the    *)
(* venue and then failed (the leg is still pending locally under the      *)
(* cancelled order id), the next pass whose reconciliation reaches the    *)
(* venue leaves the leg no longer pending under that order id.            *)
C27_NextPassCorrectsCancelledOrder ==
    [][(/\ last.op = "monitor"
        /\ last.decision \in {"reprice", "derisk"}
        /\ last.calls.cancel_ok /\ ~last.success
        /\ last'.op = "monitor" /\ last'.fetch = "ok"
        /\ now' = now)
       => LET key == last.pending_key
          IN  ~(/\ positions'[key].status \in {"pending", "partial"}
                /\ positions'[key].order_id = positions[key].order_id)]_vars

(* C28: with both legs of a hedge tracked, the monitor loop exits after   *)
(* a pass only when every leg is filled or in a terminal status: it keeps *)
(* running while the hedge has a leg that is neither.                     *)
C28_LoopRunsUntilResolved ==
    (/\ last.op = "monitor"
     /\ DOMAIN positions = LegKeys("D1")
     /\ MonitorLoopExits(positions)) =>
        \A k \in DOMAIN positions :
            positions[k].status \in {"filled"} \cup TerminalStatuses

(* C29: once the hedge is de-risked (its legs derisk_sold and             *)
(* derisk_cancelled), every later pass finds no partial hedge, sends no   *)
(* cancel, buy or sell, and leaves the store as it is, whatever the venue *)
(* answers.                                                               *)
C29_TerminalHedgeLeftAlone ==
    [][(/\ \E k \in DOMAIN positions : positions[k].status \in TerminalStatuses
        /\ last'.op = "monitor"
        /\ now' = now)
       => /\ ~last'.found
          /\ last'.decision = "none"
          /\ last'.calls = NoCalls
          /\ positions' = positions]_vars

(* A pass in the last hour met a de-risked hedge while the venue still    *)
(* answered, and did nothing.                                             *)
C29_Witness ==
    /\ last.op = "monitor" /\ last.fetch = "ok"
    /\ ~last.found /\ last.calls = NoCalls
    /\ now = MaxTick
    /\ \E f \in DOMAIN positions, p \in DOMAIN positions :
           /\ positions[f].status = "derisk_sold"
           /\ positions[p].status = "derisk_cancelled"
           /\ last.pre[f] = "derisk_sold"

(* The prices a reprice is asked to move the pending order to. *)
RepricePrices == {1, 31, 36, 51, 58, 99}

(* C31: a reprice that succeeds gives the pending Leg the new limit       *)
(* price, the new order's id, the time of the reprice as its order time   *)
(* and a reprice counter one higher, and changes nothing else: not the    *)
(* Leg's status, not the filled leg.  A reprice that fails changes no     *)
(* field of any Leg.                                                      *)
C31_RepriceEffect ==
    /\ \A hedge \in FindPartialFillHedges(positions) :
           \A new_price \in RepricePrices, cancel_ok \in BOOLEAN,
              buy \in RepriceOutcomes :
               LET r == ExecuteReprice(positions, hedge, new_price, cancel_ok, buy, Clock)
                   old == positions[hedge.pending_key]
               IN  IF r.success
                   THEN /\ r.pos[hedge.pending_key] =
                              [old EXCEPT !.limit_price = new_price,
                                          !.order_id = buy.order_id,
                                          !.timestamp = Clock,
                                          !.reprice_count = old.reprice_count + 1]
                        /\ \A k \in DOMAIN positions \ {hedge.pending_key} :
                               r.pos[k] = positions[k]
                        /\ DOMAIN r.pos = DOMAIN positions
                   ELSE r.pos = positions
    /\ (last.op = "monitor" /\ last.decision = "reprice") =>
           /\ Statuses(positions) = last.pre
           /\ last.success =>
                  /\ positions[last.pending_key].reprice_count >= 1
                  /\ positions[last.pending_key].order_id = "ord-b"

(* A pass repriced the pending leg eight hours before the close: the leg  *)
(* carries the new order, the time of the pass and one reprice.           *)
C31_Witness ==
    /\ last.op = "monitor" /\ last.decision = "reprice" /\ last.success
    /\ now = 1
    /\ positions[last.pending_key].status = "pending"
    /\ positions[last.pending_key].order_id = "ord-b"
    /\ positions[last.pending_key].timestamp = Clock
    /\ positions[last.pending_key].reprice_count = 1
    /\ positions[last.filled_key].status = "filled"

(* C36: whatever passes and reprices the policy has made on a hedge, the *)
(* limit price of its filled leg plus the current limit price of its      *)
(* pending leg is at most MAX_TOTAL_COST.                                 *)
C36_HedgeWithinBudget ==
    \A hedge \in FindPartialFillHedges(positions) :
        hedge.filled_pos.limit_price + hedge.pending_pos.limit_price <= MAX_TOTAL_COST

(* C37: an iteration of run_strategy submits the entry buy order of a leg *)
(* only when no earlier iteration has submitted one, that is, when the    *)
(* store tracks no Leg of that ticker; this holds also after an entry     *)
(* whose second leg was not placed.                                       *)
C37_OneEntryBuyPerLeg ==
    [][(last'.op = "execute_hedge_trade" /\ now' = now /\ last'.placed >= 1)
       => Key(LowerTicker, "yes") \notin DOMAIN positions]_vars

(* C38: a pass that, after its reconciliation, holds a filled Leg whose   *)
(* hedge is not complete (the other leg is pending, or was never placed   *)
(* and is not tracked) selects that Leg in its scan.                      *)
C38_FilledLegOfOpenHedgeSelected ==
    (last.op = "monitor" /\ last.fetch # "raised") =>
        \A k \in DOMAIN last.pre :
            (/\ last.pre[k] = "filled"
             /\ \A other \in DOMAIN last.pre \ {k} : last.pre[other] = "pending")
            => last.found /\ last.filled_key = k

-----------------------------------------------------------------------------
(* Properties of hedge discovery *)

(* C7: every pair find_hedge_opportunity returns costs at most            *)
(* MAX_TOTAL_COST in total, and each leg's maker price lies within         *)
(* [MIN_BUCKET_PRICE, MAX_BUCKET_PRICE].                                   *)
C7_PairWithinLimits ==
    opportunity.found =>
        /\ opportunity.leg1.maker_price + opportunity.leg2.maker_price <= MAX_TOTAL_COST
        /\ opportunity.total_cost = opportunity.leg1.maker_price + opportunity.leg2.maker_price
        /\ \A leg \in {opportunity.leg1, opportunity.leg2} :
               MIN_BUCKET_PRICE <= leg.maker_price /\ leg.maker_price <= MAX_BUCKET_PRICE

(* C7 witness: a pair was returned with both legs at the per-leg limit,   *)
(* from an event that also quotes a bucket over the limit.                 *)
C7_Witness ==
    /\ opportunity.found
    /\ opportunity.leg1.maker_price = MAX_BUCKET_PRICE
    /\ opportunity.total_cost = MAX_TOTAL_COST
    /\ \E i \in 1..Len(markets) : MakerPrice(markets[i]) > MAX_BUCKET_PRICE

EligibleBuckets == {Bucket(markets[i]) : i \in {j \in 1..Len(markets) : IsBucket(markets[j])}}

(* C33: a returned pair is two eligible buckets that are neighbours in    *)
(* midpoint order, the lower one first; one of them is the forecast       *)
(* bucket (the one whose [floor, cap) contains the forecast, or the one   *)
(* with the closest midpoint when none contains it); the returned total   *)
(* cost is the sum of the two maker prices.                               *)
C33_PairBracketsForecast ==
    opportunity.found =>
        LET l1 == opportunity.leg1
            l2 == opportunity.leg2
            containing == {b \in EligibleBuckets : ContainsForecast(b, forecast_temp)}
            dist(b) == Abs(b.midpoint - forecast_temp)
        IN  /\ l1 \in EligibleBuckets /\ l2 \in EligibleBuckets
            /\ l1.midpoint < l2.midpoint
            /\ ~(\E b \in EligibleBuckets :
                     l1.midpoint < b.midpoint /\ b.midpoint < l2.midpoint)
            /\ IF containing # {}
               THEN l1 \in containing \/ l2 \in containing
               ELSE \E l \in {l1, l2} : \A b \in EligibleBuckets : dist(l) <= dist(b)
            /\ opportunity.total_cost = l1.maker_price + l2.maker_price

(* C33 witness: the 38c bucket [49, 50) holding the forecast 49.7 and the *)
(* 20c bucket "50 or above" were returned, in that order, for 58c.        *)
C33_Witness ==
    /\ opportunity.found
    /\ forecast_temp = 497
    /\ opportunity.leg1.floor = 490 /\ opportunity.leg1.cap = 500
    /\ opportunity.leg1.maker_price = 38
    /\ opportunity.leg2.floor = 500 /\ opportunity.leg2.cap = NoStrike
    /\ opportunity.leg2.maker_price = 20
    /\ opportunity.total_cost = 58

(* The centering score of a pair: the smaller of the forecast's distances *)
(* to the pair's lower floor and to its upper cap, an absent bound being  *)
(* 999 degrees away.                                                      *)
CenteringScore(b1, b2) ==
    LET to_low == IF b1.floor = NoStrike THEN 9990 ELSE forecast_temp - b1.floor
        to_high == IF b2.cap = NoStrike THEN 9990 ELSE b2.cap - forecast_temp
    IN  IF to_low < to_high THEN to_low ELSE to_high

(* The candidate pairs of the snapshot that pass both price limits. *)
ValidPairs ==
    LET buckets == SortByMidpoint(BuildBuckets(markets))
        idx == ForecastBucketIdx(buckets, forecast_temp)
    IN  {<<buckets[i], buckets[i + 1]>> :
            i \in {j \in 1..(Len(buckets) - 1) :
                      /\ idx \in {j, j + 1}
                      /\ buckets[j].maker_price <= MAX_BUCKET_PRICE
                      /\ buckets[j + 1].maker_price <= MAX_BUCKET_PRICE
                      /\ buckets[j].maker_price + buckets[j + 1].maker_price
                             <= MAX_TOTAL_COST}}

(* C34: discovery returns the valid candidate pair with the highest       *)
(* centering score, the cheapest one among equal scores, and returns no   *)
(* opportunity exactly when no candidate pair is valid.                   *)
C34_BestCenteredPair ==
    opportunity.run =>
        LET valid == ValidPairs
            best == <<opportunity.leg1, opportunity.leg2>>
            score == CenteringScore(best[1], best[2])
        IN  /\ opportunity.found <=> valid # {}
            /\ opportunity.found =>
                   /\ best \in valid
                   /\ \A c \in valid :
                          \/ score > CenteringScore(c[1], c[2])
                          \/ /\ score = CenteringScore(c[1], c[2])
                             /\ best[1].maker_price + best[2].maker_price
                                    <= c[1].maker_price + c[2].maker_price

(* C34 witness: both candidate pairs were valid and equally centred, and  *)
(* the cheaper pair, the second candidate, was returned.                  *)
C34_Witness ==
    /\ opportunity.found
    /\ Cardinality(ValidPairs) = 2
    /\ \A c \in ValidPairs : CenteringScore(c[1], c[2]) = 5
    /\ opportunity.leg1.floor = 490
    /\ opportunity.total_cost = 40
    /\ \E c \in ValidPairs : c[1].maker_price + c[2].maker_price = 58

(* C35: the maker price of every kept bucket is min(bid + 1, ask), or the *)
(* ask when no bid is quoted, clamped to [1, 99]: it lies in [1, 99] and  *)
(* is never above the ask. The legs of a returned pair are buckets of the *)
(* snapshot with an ask and a maker price at or above the price floor.    *)
C35_MakerPriceOfKeptBuckets ==
    LET buckets == BuildBuckets(markets)
        quoted(b) == IF b.yes_bid > 0 /\ b.yes_bid + 1 < b.yes_ask
                     THEN b.yes_bid + 1 ELSE b.yes_ask
        clamped(x) == IF x < 1 THEN 1 ELSE IF x > 99 THEN 99 ELSE x
    IN  /\ \A i \in 1..Len(buckets) :
               /\ buckets[i].maker_price = clamped(quoted(buckets[i]))
               /\ buckets[i].maker_price \in 1..99
               /\ buckets[i].maker_price <= buckets[i].yes_ask
        /\ opportunity.found =>
               \A leg \in {opportunity.leg1, opportunity.leg2} :
                   /\ \E i \in 1..Len(markets) :
                          /\ markets[i].ticker = leg.ticker
                          /\ markets[i].yes_bid = leg.yes_bid
                          /\ markets[i].yes_ask = leg.yes_ask
                   /\ leg.yes_ask > 0
                   /\ leg.maker_price = clamped(quoted(leg))
                   /\ leg.maker_price >= LowPriceFloor

(* C35 witness: a pair was returned from a snapshot that also lists a     *)
(* bucket without an ask or under the price floor; one leg is priced one  *)
(* tick over its bid and under its ask, the other at its ask.             *)
C35_Witness ==
    /\ opportunity.found
    /\ \E i \in 1..Len(markets) :
           markets[i].yes_ask = 0 \/ MakerPrice(markets[i]) < LowPriceFloor
    /\ opportunity.leg1.yes_bid = 49 /\ opportunity.leg1.yes_ask = 52
    /\ opportunity.leg1.maker_price = 50
    /\ opportunity.leg2.yes_bid = 0 /\ opportunity.leg2.maker_price = 20

-----------------------------------------------------------------------------
(* Properties of the trade ledger *)

(* What of a settled trade has to stay as it is. *)
SameSettledData(before, after) ==
    /\ after.outcome = before.outcome
    /\ after.pnl = before.pnl
    /\ after.leg1 = before.leg1
    /\ after.leg2 = before.leg2
    /\ after.exit = before.exit
    /\ Len(after.forecasts) = Len(before.forecasts)

(* C9: once a trade has settled_at set, no later ledger operation changes *)
(* its outcome, P&L, leg data or exit data, and no forecast is appended.   *)
C9_SettledTradeImmutable ==
    [][\A i \in 1..Len(history.trades) :
          history.trades[i].settled_at # NoneInt =>
              /\ i <= Len(history'.trades)
              /\ SameSettledData(history.trades[i], history'.trades[i])]_vars

SummaryOps ==
    {"record_hedge_entry", "update_trade", "record_win", "record_loss", "record_derisk"}

(* The step changed the set of trades or the outcome of one of them. *)
TradesOrOutcomeChanged(before, after) ==
    \/ Len(after.trades) # Len(before.trades)
    \/ \E i \in 1..Len(before.trades) : after.trades[i].outcome # before.trades[i].outcome

(* C10: after a ledger operation that changes the set of trades or a      *)
(* trade's outcome, the saved summary block is the fold of _update_summary *)
(* over the saved trades; and _update_summary applied twice gives what it  *)
(* gives applied once.                                                     *)
C10_SummaryFoldsTrades ==
    [][/\ (last'.op \in SummaryOps /\ TradesOrOutcomeChanged(history, history'))
            => history'.summary = Summary(history'.trades)
       /\ UpdateSummary(UpdateSummary(history')) = UpdateSummary(history')]_vars

(* The trade ids in the ledger. *)
TradeIds(hist) == {hist.trades[i].id : i \in 1..Len(hist.trades)}

(* C11: the ledger holds at most one trade per trade id; a                *)
(* record_hedge_entry appends at most one record, and only under an id     *)
(* the ledger did not hold.                                                *)
C11_OneTradePerId ==
    [][/\ Cardinality(TradeIds(history')) = Len(history'.trades)
       /\ (last'.op = "record_hedge_entry") =>
             /\ Len(history'.trades) <= Len(history.trades) + 1
             /\ (Len(history'.trades) = Len(history.trades) + 1) =>
                   history'.trades[Len(history'.trades)].id \notin TradeIds(history)]_vars

(* C11 witness: record_hedge_entry was called for a hedge whose trade was *)
(* already in the ledger, and settled.                                     *)
C11_Witness ==
    /\ last.op = "record_hedge_entry"
    /\ \E i \in 1..Len(history.trades) :
          /\ history.trades[i].id = TradeIdOf("D1")
          /\ history.trades[i].settled_at # NoneInt

SalePriceInputs == {1, 20, 40, 60, 99}
TradeLegKeys(trade) == {trade.leg1.key, trade.leg2.key}

(* C12: record_win sets the outcome to win and the P&L to 100 minus the   *)
(* trade's total cost, whatever sold_price is passed and whichever leg won. *)
C12_WinPnlIsTheoretical ==
    \A i \in 1..Len(history.trades) :
        LET trade == history.trades[i]
        IN  \A sold_price \in SalePriceInputs, key \in TradeLegKeys(trade) :
                LET after == RecordWin(history, trade.id, key, NoneInt,
                                       sold_price, Clock).trades[i]
                IN  /\ after.outcome = "win"
                    /\ after.pnl = 100 - trade.total_cost

(* C12 witness: record_win has just settled a trade of cost 80 sold at 99. *)
C12_Witness ==
    /\ last.op = "record_win"
    /\ \E i \in 1..Len(history.trades) :
          /\ history.trades[i].outcome = "win"
          /\ history.trades[i].exit.sold_price = 99
          /\ history.trades[i].pnl = 20

(* C13: record_loss sets the outcome to loss and the P&L to minus the     *)
(* trade's total cost.                                                     *)
C13_LossPnlIsMinusCost ==
    \A i \in 1..Len(history.trades) :
        LET trade == history.trades[i]
            after == RecordLoss(history, trade.id, NoneInt, Clock).trades[i]
        IN  /\ after.outcome = "loss"
            /\ after.pnl = 0 - trade.total_cost

(* C13 witness: record_loss has just settled the day's trade at -80. *)
C13_Witness ==
    /\ last.op = "record_loss"
    /\ \E i \in 1..Len(history.trades) :
          /\ history.trades[i].id = TradeIdOf("D1")
          /\ history.trades[i].outcome = "loss"
          /\ history.trades[i].pnl = 0 - 80

(* C14: record_derisk sets the outcome to derisked and the P&L to the     *)
(* sold price minus the entry price of the leg named by sold_leg_key; that *)
(* leg becomes derisk_sold and the other one derisk_cancelled.             *)
C14_DeriskPnlOfSoldLeg ==
    \A i \in 1..Len(history.trades) :
        LET trade == history.trades[i]
        IN  \A sold_price \in SalePriceInputs, sold_key \in TradeLegKeys(trade) :
                LET other_key == CHOOSE k \in TradeLegKeys(trade) : k # sold_key
                    after == RecordDerisk(history, trade.id, sold_key, sold_price,
                                          other_key, Clock).trades[i]
                    sold_leg == IF after.leg1.key = sold_key THEN after.leg1 ELSE after.leg2
                    other_leg == IF after.leg1.key = sold_key THEN after.leg2 ELSE after.leg1
                    entry == IF trade.leg1.key = sold_key THEN trade.leg1.order_price
                             ELSE trade.leg2.order_price
                IN  /\ after.outcome = "derisked"
                    /\ after.pnl = sold_price - entry
                    /\ sold_leg.key = sold_key
                    /\ sold_leg.status = "derisk_sold"
                    /\ other_leg.status = "derisk_cancelled"

(* C14 witness: record_derisk has just sold the upper leg (entry 50) at   *)
(* 40, a loss of 10.                                                       *)
C14_Witness ==
    /\ last.op = "record_derisk"
    /\ \E i \in 1..Len(history.trades) :
          /\ history.trades[i].outcome = "derisked"
          /\ history.trades[i].leg2.status = "derisk_sold"
          /\ history.trades[i].leg1.status = "derisk_cancelled"
          /\ history.trades[i].pnl = 0 - 10

-----------------------------------------------------------------------------
(* Properties of the summary *)

(* What one trade adds to won-profit, lost-loss and de-risk P&L. *)
Contribution(trade, kind) ==
    CASE kind = "won_profit" -> IF trade.outcome = "win" THEN 100 - trade.total_cost ELSE 0
      [] kind = "lost_loss" -> IF trade.outcome = "loss" THEN trade.total_cost ELSE 0
      [] kind = "derisk_pnl" -> IF trade.outcome = "derisked" THEN trade.pnl ELSE 0

RECURSIVE TotalOf(_, _, _)
TotalOf(trades, idx, kind) ==
    IF idx = {} THEN 0
    ELSE LET i == CHOOSE x \in idx : TRUE
         IN  Contribution(trades[i], kind) + TotalOf(trades, idx \ {i}, kind)

(* The block has the three aggregates of these trades and their net. *)
AggregatesOf(block, trades, idx) ==
    /\ block.won_profit = TotalOf(trades, idx, "won_profit")
    /\ block.lost_loss = TotalOf(trades, idx, "lost_loss")
    /\ block.derisk_pnl = TotalOf(trades, idx, "derisk_pnl")
    /\ block.net_profit = TotalOf(trades, idx, "won_profit")
                            - TotalOf(trades, idx, "lost_loss")
                            + TotalOf(trades, idx, "derisk_pnl")

(* C15: in the summary _update_summary writes, every settlement date's    *)
(* net profit is won-profit minus lost-loss plus de-risk P&L over that     *)
(* date's trades, and the totals are the same aggregates over all trades.  *)
C15_NetProfitByDateAndTotal ==
    (last.op = "update_summary") =>
        LET trades == history.trades
            all == 1..Len(trades)
            dates == {trades[i].market_date : i \in all}
        IN  /\ DOMAIN history.summary.by_date = dates
            /\ \A d \in dates :
                  AggregatesOf(history.summary.by_date[d], trades,
                               {i \in all : trades[i].market_date = d})
            /\ AggregatesOf(history.summary.totals, trades, all)

(* C15 witness: a date with one win of cost 60 and one loss of cost 55    *)
(* nets -15.                                                               *)
C15_Witness ==
    /\ last.op = "update_summary"
    /\ "D1" \in DOMAIN history.summary.by_date
    /\ history.summary.by_date["D1"].wins = 1
    /\ history.summary.by_date["D1"].losses = 1
    /\ history.summary.by_date["D1"].won_profit = 40
    /\ history.summary.by_date["D1"].lost_loss = 55
    /\ history.summary.by_date["D1"].net_profit = 0 - 15

====
